---- MODULE Spec2Model ----
(***************************************************************************)
(* Mind Scout: the asynchronous topic-extraction pipeline.                 *)
(*   mindscout/processors/content.py  ContentProcessor (batch creation,    *)
(*                                    result application, notifications)  *)
(*   mindscout/processors/llm.py      LLMClient (provider batch calls)     *)
(*   backend/scheduler/jobs.py        fetch_and_process_job,               *)
(*                                    check_pending_batches_job            *)
(*   mindscout/database.py            Article, PendingBatch, Notification  *)
(*                                                                         *)
(* The specifications share the variables:                                 *)
(*   Spec       the scheduler-driven system: ingestion, the daily job and  *)
(*              the periodic batch check;                                  *)
(*   TimedSpec  Spec with the clock running;                               *)
(*   FairSpec   TimedSpec with the batch check firing again and again;     *)
(*   ApplySpec  direct calls of apply_batch_results and                    *)
(*              _create_interest_notification on the item store, as the    *)
(*              unit tests make them, for one batch whose results the      *)
(*              provider holds fixed;                                      *)
(*   PollSpec   the batch check alone, over batches already submitted,     *)
(*              with every status the provider can answer;                 *)
(*   DailySpec  the daily job step by step, beside the CLI's fetch and     *)
(*              process commands (separate processes on the same tables);  *)
(*   LoopSpec   both jobs and the run-daily-job endpoint as calls on the   *)
(*              application's one event loop;                              *)
(*   RaceSpec   calls of apply_batch_results that overlap, each in its     *)
(*              own database session;                                      *)
(*   FetchSpec  get_batch_results over the result streams the provider     *)
(*              can hand back;                                             *)
(*   CountSpec  the counts of apply_batch_results, process_batch and the   *)
(*              batch check, call by call;                                 *)
(*   PipeSpec   the batch check and the daily job beside the CLI's         *)
(*              process command, over articles a batch already holds;      *)
(*   RetrySpec  apply_batch_results followed by create_async_batch;        *)
(*   LedgerSpec rows added to pending_batches, by the daily job and        *)
(*              directly;                                                  *)
(*   AbandonSpec the batch check, cut off in the middle of its loop;       *)
(*   IngestSpec the daily job with each of its fetch steps able to raise;  *)
(*   SelectSpec create_async_batch with the requests it builds;            *)
(*   WaitSpec   poll_batch_until_complete, the clock moving in its sleeps, *)
(*              under weak fairness of the thread's steps;                 *)
(*   ArticleSpec process_article called directly on stored articles;       *)
(*   SettleSpec the batch check with the provider's results held fixed.    *)
(***************************************************************************)
EXTENDS Integers, Sequences, FiniteSets, TLC

\* ------------------------------------------------------------------ bounds
MaxItems == 2      \* ApplySpec: article ids a result can name, articles in the store
MaxFetched == 1    \* Spec: articles ever ingested
MaxBatches == 2    \* batches ever submitted to the provider
MaxTime == 2       \* the clock runs 0..MaxTime
MaxAge == 1        \* the "configured maximum age" of the age policy (spec 4.3)
MaxRunning == 2    \* calls in progress at once
MaxRaceItems == 1  \* RaceSpec: articles in the store, ids a result can name
MaxCalls == 2      \* RaceSpec: apply_batch_results calls made
MaxWait == 1       \* WaitSpec: max_wait is 0..MaxWait
MaxInterval == 2   \* WaitSpec: poll_interval, and the time a sleep takes, 1..MaxInterval

\* limit=100 of the daily job's create_async_batch call
BatchLimit == 100

\* [:5] of get_batch_results: the topics kept from one answer
MaxTopics == 5

\* ------------------------------------------------------------------ values
\* A nullable column is a sequence of length 0 (NULL) or 1 (the value).
Null == <<>>
Some(v) == <<v>>

\* json.dumps / json.loads of a list of strings: the text wraps the list and
\* loading the text gives the list back.
JsonDumps(topics) == Some(topics)
JsonLoads(text) == text[1]

\* str.strip and str.lower on the strings the model uses.
Strip(s) == CASE s = " " -> ""
              [] s = " NLP" -> "NLP"
              [] s = " Vision" -> "Vision"
              [] OTHER -> s
Lower(s) == CASE s = "NLP" -> "nlp"
              [] s = "Nlp" -> "nlp"
              [] s = "Vision" -> "vision"
              [] OTHER -> s

\* Topic lists a provider result can carry for one request; <<>> is what
\* get_batch_results yields for a request that did not succeed (or whose
\* answer held no usable topic).
TopicLists == {<<>>, <<"Nlp">>, <<"Vision">>}

\* The user_profile table: no row, a row with only blanks, a row with
\* interests. interests is the list of the comma-separated pieces of the text
\* (<<>> for NULL and for the empty text).
NoProfile == [exists |-> FALSE, interests |-> <<>>]
BlankProfile == [exists |-> TRUE, interests |-> <<" ">>]
NlpProfile == [exists |-> TRUE, interests |-> <<" NLP", "ml">>]
Profiles == {NoProfile, BlankProfile, NlpProfile}

OpenStatuses == {"pending", "processing"}
TerminalStatuses == {"completed", "failed"}

\* get_batch_status: the provider's processing_status, or the call raises.
\* ("canceled" is handled as "failed" and "expired" are.)
ProviderStatuses == {"in_progress", "ended", "failed", "expired"}
Answers == ProviderStatuses \cup {"raise"}

VARIABLES
    articles,         \* articles table: id (1..Len) -> [processed, topics, processing_date]
    notifications,    \* notifications table, in insertion order: [article_id, type]
    profile,          \* user_profile table (read only here)
    pending_batches,  \* pending_batches table: id -> row
    provider,         \* provider side: batch id -> set of custom_ids submitted
    now,              \* datetime.utcnow()
    tick,             \* check_pending_batches_job in progress: its position and session
    batch_results,    \* ApplySpec: what get_batch_results returns for the batch applied
    running,          \* calls in progress whose steps other calls can interleave with
    last              \* the last call and what it returned

vars == <<articles, notifications, profile, pending_batches, provider, now, tick,
          batch_results, running, last>>

SetMin(S) == CHOOSE x \in S : \A y \in S : x <= y
Min2(a, b) == IF a <= b THEN a ELSE b

NewArticle == [processed |-> FALSE, topics |-> Null, processing_date |-> Null]

IdleTick == [pc |-> "idle"]

Init ==
    /\ articles = <<>>
    /\ notifications = <<>>
    /\ profile \in {NoProfile, NlpProfile}
    /\ pending_batches = <<>>
    /\ provider = <<>>
    /\ now = 0
    /\ tick = IdleTick
    /\ batch_results = <<>>
    /\ running = <<>>
    /\ last = [op |-> "init"]

\* ------------------------------------------------- interest notifications
UserInterestsCaseSensitive(interests) ==
    { Strip(interests[k]) : k \in {k \in DOMAIN interests : Strip(interests[k]) # ""} }

\* user_interests = {i.strip().lower() for i in interests.split(",") if i.strip()}
UserInterests(interests) ==
    { Lower(Strip(interests[k])) : k \in {k \in DOMAIN interests : Strip(interests[k]) # ""} }

\* article_topics_lower = {t.lower() for t in json.loads(article.topics)}
ArticleTopicsLower(article) ==
    LET article_topics == IF article.topics # Null THEN JsonLoads(article.topics) ELSE <<>>
    IN  { Lower(article_topics[k]) : k \in DOMAIN article_topics }

InterestsMatch(article, prof) ==
    /\ prof.exists
    /\ prof.interests # <<>>
    /\ UserInterests(prof.interests) \cap ArticleTopicsLower(article) # {}

ExistingQueryIgnored(article_id, notifs) == FALSE

\* session.query(Notification).filter_by(article_id=..., type="interest_match").first()
ExistingNotification(article_id, notifs) ==
    \E k \in DOMAIN notifs :
        notifs[k].article_id = article_id /\ notifs[k].type = "interest_match"

\* _create_interest_notification(article, session): [created, notifications]
CreateInterestNotification(article, article_id, notifs, prof) ==
    IF ~prof.exists \/ prof.interests = <<>>
    THEN [created |-> FALSE, notifications |-> notifs]
    ELSE IF UserInterests(prof.interests) = {}
    THEN [created |-> FALSE, notifications |-> notifs]
    ELSE IF UserInterests(prof.interests) \cap ArticleTopicsLower(article) = {}
    THEN [created |-> FALSE, notifications |-> notifs]
    ELSE IF ExistingNotification(article_id, notifs)
    THEN [created |-> FALSE, notifications |-> notifs]
    ELSE [created |-> TRUE,
          notifications |-> Append(notifs, [article_id |-> article_id,
                                            type |-> "interest_match"])]

InterestMatchCount(notifs, article_id) ==
    Cardinality({k \in DOMAIN notifs :
        notifs[k].article_id = article_id /\ notifs[k].type = "interest_match"})

\* ------------------------------------------------------ apply_batch_results
\* session.query(Article).filter_by(id=int(article_id)).first()
ArticleExists(arts, article_id) == article_id \in DOMAIN arts

MissingArticleRaises(st, article_id) == [st EXCEPT !.raised = TRUE]

\* if not article: failed_count += 1; continue
MissingArticle(st, article_id) == [st EXCEPT !.failed_count = @ + 1]

HasTopicsNotNone(topics) == TRUE

\* if topics:
HasTopics(topics) == topics # <<>>

NewTopicsAppended(article, topics) ==
    JsonDumps((IF article.topics # Null THEN JsonLoads(article.topics) ELSE <<>>) \o topics)

\* article.topics = json.dumps(topics)
NewTopics(article, topics) == JsonDumps(topics)

ApplyOneMarksFailed(st, article_id, topics, prof, t) ==
    IF ~ArticleExists(st.articles, article_id)
    THEN MissingArticle(st, article_id)
    ELSE LET article == [st.articles[article_id] EXCEPT
                            !.topics = NewTopics(st.articles[article_id], topics),
                            !.processed = TRUE,
                            !.processing_date = Some(t)]
             n == CreateInterestNotification(article, article_id, st.notifications, prof)
         IN  IF HasTopics(topics)
             THEN [st EXCEPT !.articles = [st.articles EXCEPT ![article_id] = article],
                             !.notifications = n.notifications,
                             !.updated_count = @ + 1]
             ELSE [st EXCEPT !.articles = [st.articles EXCEPT ![article_id] = article],
                             !.failed_count = @ + 1]

\* One iteration of the loop over results.items(). st is the session's view:
\* [articles, notifications, updated_count, failed_count, raised].
ApplyOne(st, article_id, topics, prof, t) ==
    IF ~ArticleExists(st.articles, article_id)
    THEN MissingArticle(st, article_id)
    ELSE IF HasTopics(topics)
    THEN LET article == [st.articles[article_id] EXCEPT
                            !.topics = NewTopics(st.articles[article_id], topics),
                            !.processed = TRUE,
                            !.processing_date = Some(t)]
             n == CreateInterestNotification(article, article_id, st.notifications, prof)
         IN  [st EXCEPT !.articles = [st.articles EXCEPT ![article_id] = article],
                        !.notifications = n.notifications,
                        !.updated_count = @ + 1]
    ELSE [st EXCEPT !.failed_count = @ + 1]

\* for article_id, topics in results.items(): ...  (the ids in increasing
\* order; each key names a different article, so the order of the dict only
\* decides the order in which notifications are inserted). An exception
\* leaves the loop.
RECURSIVE ApplyLoop(_, _, _, _, _)
ApplyLoop(st, ids, results, prof, t) ==
    IF ids = {} \/ st.raised
    THEN st
    ELSE LET article_id == SetMin(ids)
         IN  ApplyLoop(ApplyOne(st, article_id, results[article_id], prof, t),
                       ids \ {article_id}, results, prof, t)

\* apply_batch_results(batch_id): fetch_ok = FALSE is get_batch_results raising.
\* The outcome is [articles, notifications, updated_count, failed_count,
\* raised]: the tables as committed (or rolled back), and the returned tuple.
ApplyBatchResults(fetch_ok, results, arts, notifs, prof, t) ==
    LET st0 == [articles |-> arts, notifications |-> notifs,
                updated_count |-> 0, failed_count |-> 0, raised |-> FALSE]
        st == IF fetch_ok
              THEN ApplyLoop(st0, DOMAIN results, results, prof, t)
              ELSE [st0 EXCEPT !.raised = TRUE]
    IN  IF st.raised
        THEN [st EXCEPT !.articles = arts, !.notifications = notifs]  \* session.rollback()
        ELSE st                                                        \* session.commit()

\* --------------------------------------------------------------- ingestion
\* BaseFetcher.store_articles: a new Article row (processed defaults to False).
StoreArticles(arts, n) ==
    IF n = 0 THEN arts ELSE Append(arts, NewArticle)

Fetch ==
    /\ tick.pc = "idle"
    /\ Len(articles) < MaxFetched
    /\ articles' = StoreArticles(articles, 1)
    /\ last' = [op |-> "fetch"]
    /\ UNCHANGED <<notifications, profile, pending_batches, provider, now, tick,
                   batch_results, running>>

\* Time passes.
Advance ==
    /\ tick.pc = "idle"
    /\ now < MaxTime
    /\ now' = now + 1
    /\ UNCHANGED <<articles, notifications, profile, pending_batches, provider, tick,
                   batch_results, running, last>>

\* ------------------------------------------------ fetch_and_process_job
\* session.query(Article).filter(Article.processed == False)
UnprocessedIds(arts) == {i \in DOMAIN arts : ~arts[i].processed}

\* query.limit(limit).all(): the first `limit` rows, in id order
RECURSIVE FirstN(_, _)
FirstN(S, n) ==
    IF n = 0 \/ S = {}
    THEN {}
    ELSE LET m == SetMin(S) IN {m} \cup FirstN(S \ {m}, n - 1)

\* The articles create_async_batch(limit) puts into the batch
\* (`if limit:` - no limit, written 0 here, selects them all).
SelectForBatch(arts, limit) ==
    IF limit = 0 THEN UnprocessedIds(arts) ELSE FirstN(UnprocessedIds(arts), limit)

CreateAsyncBatchSwallows(arts, limit, submit_ok, prov) ==
    LET selected == SelectForBatch(arts, limit)
    IN  IF selected = {}
        THEN [raised |-> TRUE, batch_id |-> 0, provider |-> prov]
        ELSE IF ~submit_ok
        THEN [raised |-> FALSE, batch_id |-> 0, provider |-> prov]
        ELSE [raised |-> FALSE, batch_id |-> Len(prov) + 1,
              provider |-> Append(prov, selected)]

CreateAsyncBatchEmptyAllowed(arts, limit, submit_ok, prov) ==
    LET selected == SelectForBatch(arts, limit)
    IN  IF ~submit_ok
        THEN [raised |-> TRUE, batch_id |-> 0, provider |-> prov]
        ELSE [raised |-> FALSE, batch_id |-> Len(prov) + 1,
              provider |-> Append(prov, selected)]

\* create_async_batch(limit): [raised, batch_id, provider]. submit_ok = FALSE
\* is client.messages.batches.create raising. The provider issues the batch
\* id; the custom_ids are the article ids.
CreateAsyncBatch(arts, limit, submit_ok, prov) ==
    LET selected == SelectForBatch(arts, limit)
    IN  IF selected = {}
        THEN [raised |-> TRUE, batch_id |-> 0, provider |-> prov]   \* ValueError
        ELSE IF ~submit_ok
        THEN [raised |-> TRUE, batch_id |-> 0, provider |-> prov]
        ELSE [raised |-> FALSE, batch_id |-> Len(prov) + 1,
              provider |-> Append(prov, selected)]

\* PendingBatch(batch_id=..., article_count=..., status="pending")
PendingBatch(batch_id, article_count, t) ==
    [batch_id |-> batch_id, article_count |-> article_count, status |-> "pending",
     created_date |-> t, completed_date |-> Null, error_message |-> Null]

InsertPendingBatchUnchecked(pb, row) ==
    [raised |-> FALSE, pending_batches |-> Append(pb, row)]

\* session.add(pending) and the commit of the with-block. batch_id is
\* declared unique: the INSERT of a second row with a batch_id that is stored
\* raises (IntegrityError), get_db_session rolls back and raises it on.
InsertPendingBatch(pb, row) ==
    IF \E j \in DOMAIN pb : pb[j].batch_id = row.batch_id
    THEN [raised |-> TRUE, pending_batches |-> pb]
    ELSE [raised |-> FALSE, pending_batches |-> Append(pb, row)]

\* fetch_and_process_job(), run by the scheduler or by POST /run-daily-job:
\* `new` articles come in from the fetchers (steps 1-3), then step 4 creates
\* the batch. The coroutine has no await: nothing else on the event loop runs
\* in between.
FetchAndProcessJob(new, submit_ok) ==
    LET arts == StoreArticles(articles, new)
        unprocessed_count == Cardinality(UnprocessedIds(arts))
        b == CreateAsyncBatch(arts, BatchLimit, submit_ok, provider)
        created == unprocessed_count > 0 /\ ~b.raised
    IN  /\ tick.pc = "idle"
        /\ new \in 0..Min2(1, MaxFetched - Len(articles))
        /\ created => Len(provider) < MaxBatches
        /\ articles' = arts
        /\ provider' = IF created THEN b.provider ELSE provider
        /\ pending_batches' =
              IF created
              THEN Append(pending_batches,
                          PendingBatch(b.batch_id, Min2(unprocessed_count, BatchLimit), now))
              ELSE pending_batches
        /\ last' = [op |-> "daily",
                    batch_id |-> IF created THEN Some(b.batch_id) ELSE Null,
                    batch_articles |-> IF created THEN Min2(unprocessed_count, BatchLimit)
                                       ELSE 0]
        /\ UNCHANGED <<notifications, profile, now, tick, batch_results, running>>

\* ---------------------------------------------- check_pending_batches_job
LoadAllBatches(pb) == DOMAIN pb

\* session.query(PendingBatch).filter(PendingBatch.status.in_(["pending", "processing"]))
LoadOpenBatches(pb) == {j \in DOMAIN pb : pb[j].status \in OpenStatuses}

RECURSIVE InIdOrder(_)
InIdOrder(S) ==
    IF S = {} THEN <<>> ELSE LET m == SetMin(S) IN <<m>> \o InIdOrder(S \ {m})

NoCounts == [checked |-> 0, completed |-> 0, still_pending |-> 0, failed |-> 0,
             articles_updated |-> 0]

Extend(f, k, v) == [x \in DOMAIN f \cup {k} |-> IF x = k THEN v ELSE f[x]]

CheckBatchDateOnSuccessOnly(row, counts, answer, updated, t) ==
    LET c == [counts EXCEPT !.checked = @ + 1]
    IN  IF answer = "raise"
        THEN [row |-> [row EXCEPT !.error_message = Some(<<"error">>)],
              counts |-> [c EXCEPT !.failed = @ + 1]]
        ELSE IF answer = "ended"
        THEN [row |-> [row EXCEPT !.status = "completed", !.completed_date = Some(t)],
              counts |-> [c EXCEPT !.completed = @ + 1, !.articles_updated = @ + updated]]
        ELSE IF answer \in {"failed", "expired", "canceled"}
        THEN [row |-> [row EXCEPT !.status = "failed",
                                  !.error_message = Some(<<"Batch", answer>>)],
              counts |-> [c EXCEPT !.failed = @ + 1]]
        ELSE [row |-> [row EXCEPT !.status = "processing"],
              counts |-> [c EXCEPT !.still_pending = @ + 1]]

CheckBatchCountOverwritten(row, counts, answer, updated, t) ==
    LET c == [counts EXCEPT !.checked = @ + 1]
    IN  IF answer = "raise"
        THEN [row |-> [row EXCEPT !.error_message = Some(<<"error">>)],
              counts |-> [c EXCEPT !.failed = @ + 1]]
        ELSE IF answer = "ended"
        THEN [row |-> [row EXCEPT !.status = "completed", !.completed_date = Some(t)],
              counts |-> [c EXCEPT !.completed = @ + 1, !.articles_updated = updated]]
        ELSE IF answer \in {"failed", "expired", "canceled"}
        THEN [row |-> [row EXCEPT !.status = "failed",
                                  !.error_message = Some(<<"Batch", answer>>),
                                  !.completed_date = Some(t)],
              counts |-> [c EXCEPT !.failed = @ + 1]]
        ELSE [row |-> [row EXCEPT !.status = "processing"],
              counts |-> [c EXCEPT !.still_pending = @ + 1]]

CheckBatchCountsApplied(row, counts, answer, updated, t) ==
    LET c == [counts EXCEPT !.checked = @ + 1]
    IN  IF answer = "raise"
        THEN [row |-> [row EXCEPT !.error_message = Some(<<"error">>)],
              counts |-> [c EXCEPT !.failed = @ + 1]]
        ELSE IF answer = "ended"
        THEN [row |-> [row EXCEPT !.status = "completed", !.completed_date = Some(t),
                                  !.article_count = updated],
              counts |-> [c EXCEPT !.completed = @ + 1, !.articles_updated = @ + updated]]
        ELSE IF answer \in {"failed", "expired", "canceled"}
        THEN [row |-> [row EXCEPT !.status = "failed",
                                  !.error_message = Some(<<"Batch", answer>>),
                                  !.completed_date = Some(t)],
              counts |-> [c EXCEPT !.failed = @ + 1]]
        ELSE [row |-> [row EXCEPT !.status = "processing"],
              counts |-> [c EXCEPT !.still_pending = @ + 1]]

CheckBatchCanceledUnhandled(row, counts, answer, updated, t) ==
    LET c == [counts EXCEPT !.checked = @ + 1]
    IN  IF answer = "raise"
        THEN [row |-> [row EXCEPT !.error_message = Some(<<"error">>)],
              counts |-> [c EXCEPT !.failed = @ + 1]]
        ELSE IF answer = "ended"
        THEN [row |-> [row EXCEPT !.status = "completed", !.completed_date = Some(t)],
              counts |-> [c EXCEPT !.completed = @ + 1, !.articles_updated = @ + updated]]
        ELSE IF answer \in {"failed", "expired"}
        THEN [row |-> [row EXCEPT !.status = "failed",
                                  !.error_message = Some(<<"Batch", answer>>),
                                  !.completed_date = Some(t)],
              counts |-> [c EXCEPT !.failed = @ + 1]]
        ELSE [row |-> [row EXCEPT !.status = "processing"],
              counts |-> [c EXCEPT !.still_pending = @ + 1]]

CheckBatchStatusKept(row, counts, answer, updated, t) ==
    LET c == [counts EXCEPT !.checked = @ + 1]
    IN  IF answer = "raise"
        THEN [row |-> [row EXCEPT !.error_message = Some(<<"error">>)],
              counts |-> [c EXCEPT !.failed = @ + 1]]
        ELSE IF answer = "ended"
        THEN [row |-> [row EXCEPT !.status = "completed", !.completed_date = Some(t)],
              counts |-> [c EXCEPT !.completed = @ + 1, !.articles_updated = @ + updated]]
        ELSE IF answer \in {"failed", "expired", "canceled"}
        THEN [row |-> [row EXCEPT !.status = "failed",
                                  !.error_message = Some(<<"Batch", answer>>),
                                  !.completed_date = Some(t)],
              counts |-> [c EXCEPT !.failed = @ + 1]]
        ELSE [row |-> row,
              counts |-> [c EXCEPT !.still_pending = @ + 1]]

\* The body of the loop for one batch: the row and the run's counters after
\* it. answer is what get_batch_status gave ("raise": it raised); updated is
\* what apply_batch_results returned (read only when the batch has ended).
CheckBatch(row, counts, answer, updated, t) ==
    LET c == [counts EXCEPT !.checked = @ + 1]
    IN  IF answer = "raise"
        THEN [row |-> [row EXCEPT !.error_message = Some(<<"error">>)],
              counts |-> [c EXCEPT !.failed = @ + 1]]
        ELSE IF answer = "ended"
        THEN [row |-> [row EXCEPT !.status = "completed", !.completed_date = Some(t)],
              counts |-> [c EXCEPT !.completed = @ + 1, !.articles_updated = @ + updated]]
        ELSE IF answer \in {"failed", "expired", "canceled"}
        THEN [row |-> [row EXCEPT !.status = "failed",
                                  !.error_message = Some(<<"Batch", answer>>),
                                  !.completed_date = Some(t)],
              counts |-> [c EXCEPT !.failed = @ + 1]]
        ELSE [row |-> [row EXCEPT !.status = "processing"],
              counts |-> [c EXCEPT !.still_pending = @ + 1]]

RestAfterAbort(todo, answer) == IF answer = "raise" THEN <<>> ELSE Tail(todo)

\* for batch in pending_batches: try: ... except Exception: ...  The batches
\* still to be handled once this one has been.
RestAfter(todo, answer) == Tail(todo)

\* The with-block's commit: the session's rows replace the stored ones.
Commit(pb, sess) == [j \in DOMAIN pb |-> IF j \in DOMAIN sess THEN sess[j] ELSE pb[j]]

\* return results
TickReturn(counts) == [op |-> "tick", results |-> counts]

\* Entry of check_pending_batches_job up to the query. init_ok = FALSE is
\* LLMClient() / ContentProcessor() raising. The coroutine has no await:
\* until it returns nothing else on the event loop runs.
TickStart(init_ok) ==
    /\ tick.pc = "idle"
    /\ IF ~init_ok
       THEN /\ tick' = tick
            /\ last' = TickReturn(NoCounts)
       ELSE /\ tick' = [pc |-> "loop",
                        todo |-> InIdOrder(LoadOpenBatches(pending_batches)),
                        sess |-> [j \in LoadOpenBatches(pending_batches) |->
                                     pending_batches[j]],
                        counts |-> NoCounts, seen |-> <<>>]
            /\ last' = [op |-> "tick_running"]
    /\ UNCHANGED <<articles, notifications, profile, pending_batches, provider, now,
                   batch_results, running>>

\* One pass of the loop, for the batch at the head of todo. seen keeps what
\* get_batch_status answered for the batches handled so far in this run.
TickStep(answer, fetch_ok, results) ==
    /\ tick.pc = "loop"
    /\ tick.todo # <<>>
    /\ LET j == Head(tick.todo)
           applied == ApplyBatchResults(fetch_ok, results, articles, notifications,
                                        profile, now)
           h == CheckBatch(tick.sess[j], tick.counts, answer, applied.updated_count, now)
       IN  /\ articles' = IF answer = "ended" THEN applied.articles ELSE articles
           /\ notifications' = IF answer = "ended" THEN applied.notifications
                               ELSE notifications
           /\ tick' = [tick EXCEPT !.todo = RestAfter(tick.todo, answer),
                                   !.sess = [tick.sess EXCEPT ![j] = h.row],
                                   !.counts = h.counts,
                                   !.seen = Extend(tick.seen, j, answer)]
    /\ UNCHANGED <<profile, pending_batches, provider, now, batch_results, running, last>>

\* The loop is over: the with-block commits the session and the job returns.
TickEnd ==
    /\ tick.pc = "loop"
    /\ tick.todo = <<>>
    /\ pending_batches' = Commit(pending_batches, tick.sess)
    /\ tick' = IdleTick
    /\ last' = TickReturn(tick.counts)
    /\ UNCHANGED <<articles, notifications, profile, provider, now, batch_results, running>>

\* What the provider can return for a batch: one entry per request submitted
\* under its batch id.
ProviderResults(batch_id) == [provider[batch_id] -> TopicLists]

TickLoop ==
    \/ \E answer \in Answers \ {"ended"} : TickStep(answer, TRUE, <<>>)
    \/ /\ tick.pc = "loop"
       /\ tick.todo # <<>>
       /\ \E results \in ProviderResults(tick.sess[Head(tick.todo)].batch_id) :
             TickStep("ended", TRUE, results)
    \/ TickStep("ended", FALSE, <<>>)

Tick ==
    \/ \E init_ok \in BOOLEAN : TickStart(init_ok)
    \/ TickLoop
    \/ TickEnd

Next ==
    \/ Fetch
    \/ \E new \in 0..1, submit_ok \in BOOLEAN : FetchAndProcessJob(new, submit_ok)
    \/ Tick

Spec == Init /\ [][Next]_vars

\* The same system with time passing.
TimedNext == Next \/ Advance

TimedSpec == Init /\ [][TimedNext]_vars

\* The interval trigger keeps firing the batch check (IntervalTrigger,
\* every 15 minutes), and a started run runs to its end.
FairSpec ==
    TimedSpec /\ WF_vars(TickStart(TRUE)) /\ WF_vars(TickLoop) /\ WF_vars(TickEnd)

\* ------------------------------------------------- direct calls (ApplySpec)
\* The dict get_batch_results returns: article id -> topics, for any set of
\* ids (an id above Len(articles) names no article).
ResultIds == 1..MaxItems
ResultSets == UNION { [ids -> TopicLists] : ids \in SUBSET ResultIds }

\* An article as an earlier run left it: not processed, or processed with
\* the topics extracted then.
StoredArticles ==
    {NewArticle} \cup
    { [processed |-> TRUE, topics |-> JsonDumps(t), processing_date |-> Some(0)] :
        t \in TopicLists \ {<<>>} }

ApplyInit ==
    /\ articles \in UNION { [1..k -> StoredArticles] : k \in 0..MaxItems }
    /\ notifications = <<>>
    /\ profile \in Profiles
    /\ pending_batches = <<>>
    /\ provider = <<>>
    /\ now = 0
    /\ tick = IdleTick
    /\ batch_results \in ResultSets
    /\ running = <<>>
    /\ last = [op |-> "init"]

Flip(l) == IF l.op \in {"apply", "notify"} THEN ~l.flip ELSE FALSE

\* processor.apply_batch_results(batch_id), the provider returning batch_results.
\* pre: the articles processed before the call; repeat: the call before this
\* one was an Apply too (of the same results).
Apply ==
    LET r == ApplyBatchResults(TRUE, batch_results, articles, notifications, profile, now)
    IN  /\ articles' = r.articles
        /\ notifications' = r.notifications
        /\ last' = [op |-> "apply",
                    pre |-> {i \in DOMAIN articles : articles[i].processed},
                    updated |-> r.updated_count, failed |-> r.failed_count,
                    raised |-> r.raised,
                    repeat |-> (last.op = "apply"),
                    flip |-> Flip(last)]
        /\ UNCHANGED <<profile, pending_batches, provider, now, tick, batch_results, running>>

\* processor._create_interest_notification(article, session); session.commit()
\* repeat: the call before this one was a Notify of the same article.
Notify(article_id) ==
    /\ ArticleExists(articles, article_id)
    /\ LET r == CreateInterestNotification(articles[article_id], article_id,
                                           notifications, profile)
       IN  /\ notifications' = r.notifications
           /\ last' = [op |-> "notify", article_id |-> article_id,
                       created |-> r.created,
                       repeat |-> (last.op = "notify" /\ last.article_id = article_id),
                       flip |-> Flip(last)]
    /\ UNCHANGED <<articles, profile, pending_batches, provider, now, tick, batch_results, running>>

ApplyNext ==
    \/ Apply
    \/ \E article_id \in ResultIds : Notify(article_id)

ApplySpec == ApplyInit /\ [][ApplyNext]_vars

\* ------------------------------------------------ synchronous processing
\* What process_batch gets for one selected article: topics from the
\* multi-article call, or, when that call gave none for it, what the fallback
\* process_article did: topics from extract_topics (an empty list included),
\* or an exception, which process_article turns into False.
SyncOutcomes ==
    { [via |-> "batch", topics |-> tl] : tl \in TopicLists \ {<<>>} }
    \cup { [via |-> "single", topics |-> tl] : tl \in TopicLists }
    \cup { [via |-> "failed", topics |-> <<>>] }

ProcessOneFallbackCounted(st, article_id, outcome, prof, t) ==
    IF outcome.via = "failed"
    THEN [st EXCEPT !.failed_count = @ + 1]
    ELSE LET article == [st.articles[article_id] EXCEPT
                            !.topics = JsonDumps(outcome.topics),
                            !.processed = TRUE,
                            !.processing_date = Some(t)]
             n == CreateInterestNotification(article, article_id, st.notifications, prof)
         IN  [st EXCEPT !.articles = [st.articles EXCEPT ![article_id] = article],
                        !.notifications = n.notifications,
                        !.processed_count = @ + 1,
                        !.failed_count = IF outcome.via = "single" THEN @ + 1 ELSE @]

\* One article of process_batch's loop. st is the session's view:
\* [articles, notifications, processed_count, failed_count].
ProcessOne(st, article_id, outcome, prof, t) ==
    IF outcome.via = "failed"
    THEN [st EXCEPT !.failed_count = @ + 1]
    ELSE LET article == [st.articles[article_id] EXCEPT
                            !.topics = JsonDumps(outcome.topics),
                            !.processed = TRUE,
                            !.processing_date = Some(t)]
             n == CreateInterestNotification(article, article_id, st.notifications, prof)
         IN  [st EXCEPT !.articles = [st.articles EXCEPT ![article_id] = article],
                        !.notifications = n.notifications,
                        !.processed_count = @ + 1]

RECURSIVE ProcessLoop(_, _, _, _, _)
ProcessLoop(st, ids, outcomes, prof, t) ==
    IF ids = {}
    THEN st
    ELSE LET article_id == SetMin(ids)
         IN  ProcessLoop(ProcessOne(st, article_id, outcomes[article_id], prof, t),
                         ids \ {article_id}, outcomes, prof, t)

\* process_batch(limit): the unprocessed articles, all in one chunk
\* (batch_size = 10), committed at the end of the chunk.
ProcessBatch(arts, notifs, prof, limit, outcomes, t) ==
    ProcessLoop([articles |-> arts, notifications |-> notifs,
                 processed_count |-> 0, failed_count |-> 0],
                SelectForBatch(arts, limit), outcomes, prof, t)

\* ------------------------------- the daily job, step by step (DailySpec)
AwaitInCheckLoop(job) == IF job = "check" THEN {"loop"} ELSE {}

AwaitInDailyJob(job) == IF job = "daily" THEN {"create"} ELSE {}

\* The coroutines the scheduler and the endpoints run share one event loop.
\* A coroutine gives the loop up only at an await; fetch_and_process_job and
\* check_pending_batches_job hold none.
AwaitPoints(job) == {}

\* The loop can take up a new callback: every coroutine in progress on it is
\* suspended at an await.
LoopFree(run) == \A k \in DOMAIN run : run[k].pc \in AwaitPoints(run[k].job)

\* Call k of run can take its next step: no other coroutine holds the loop.
CanStep(run, k) ==
    /\ k \in DOMAIN run
    /\ \A m \in DOMAIN run \ {k} : run[m].pc \in AwaitPoints(run[m].job)

Remove(run, k) == [m \in 1..(Len(run) - 1) |-> IF m < k THEN run[m] ELSE run[m + 1]]

FinishStuckOnRaise(run, k, raised) == IF raised THEN run ELSE Remove(run, k)

\* Call k is over, by a return or (raised) by an exception that leaves the
\* coroutine: either way it no longer holds the loop.
Finish(run, k, raised) == Remove(run, k)

\* The jobs start_scheduler registers; nothing removes one while the
\* application runs.
ScheduledJobs == {"daily", "check"}

\* A call of `job` can start: a firing of its trigger (the job is registered)
\* or a request to the endpoint, once the loop is free.
CanStart(job, origin, run) ==
    /\ origin = "scheduled" => job \in ScheduledJobs
    /\ LoopFree(run)
    /\ Len(run) < MaxRunning

\* return results, as far as the batch goes. unprocessed_count and error keep
\* what the run saw: the count of line 107 and the exception of line 134.
DailyReturn(inst, batch_id, batch_articles, error) ==
    [op |-> "daily", origin |-> inst.origin, batch_id |-> batch_id,
     batch_articles |-> batch_articles, unprocessed_count |-> inst.unprocessed_count,
     error |-> error]

\* fetch_and_process_job up to step 3: get_user_interests (outside any try:
\* interests_ok = FALSE is it raising, and the job with it), then the
\* fetchers store `new` articles.
DailyBegin(origin, new, interests_ok) ==
    LET inst == [job |-> "daily", origin |-> origin, pc |-> "count",
                 unprocessed_count |-> 0, batch_id |-> 0]
    IN  /\ CanStart("daily", origin, running)
        /\ new \in 0..Min2(1, MaxItems - Len(articles))
        /\ IF interests_ok
           THEN /\ articles' = StoreArticles(articles, new)
                /\ running' = Append(running, inst)
                /\ last' = [op |-> "daily_running"]
           ELSE /\ new = 0
                /\ articles' = articles
                /\ running' = Finish(Append(running, inst), Len(running) + 1, TRUE)
                /\ last' = [op |-> "raised", job |-> "daily", origin |-> origin]
        /\ UNCHANGED <<notifications, profile, pending_batches, provider, now, tick,
                       batch_results>>

\* Step 4, the count (lines 106-111, 129-132).
DailyCount(k) ==
    /\ CanStep(running, k)
    /\ running[k].job = "daily"
    /\ running[k].pc = "count"
    /\ LET unprocessed_count == Cardinality(UnprocessedIds(articles))
           inst == [running[k] EXCEPT !.unprocessed_count = unprocessed_count]
       IN  IF unprocessed_count > 0
           THEN /\ running' = [running EXCEPT ![k] = [inst EXCEPT !.pc = "create"]]
                /\ UNCHANGED last
           ELSE /\ running' = Finish(running, k, FALSE)
                /\ last' = DailyReturn(inst, Null, 0, "none")
    /\ UNCHANGED <<articles, notifications, profile, pending_batches, provider, now,
                   tick, batch_results>>

\* Step 4, processor.create_async_batch(limit=100) (lines 112-113, 134-137).
DailyCreate(k, submit_ok) ==
    /\ CanStep(running, k)
    /\ running[k].job = "daily"
    /\ running[k].pc = "create"
    /\ LET b == CreateAsyncBatch(articles, BatchLimit, submit_ok, provider)
       IN  IF b.raised
           THEN /\ running' = Finish(running, k, FALSE)
                /\ last' = DailyReturn(running[k], Null, 0,
                                        IF SelectForBatch(articles, BatchLimit) = {}
                                        THEN "ValueError" ELSE "submit")
                /\ UNCHANGED provider
           ELSE /\ Len(provider) < MaxBatches
                /\ provider' = b.provider
                /\ running' = [running EXCEPT ![k] = [@ EXCEPT !.pc = "persist",
                                                                !.batch_id = b.batch_id]]
                /\ UNCHANGED last
    /\ UNCHANGED <<articles, notifications, profile, pending_batches, now, tick,
                   batch_results>>

\* Step 4, the PendingBatch row and the results (lines 116-128).
DailyPersist(k) ==
    /\ CanStep(running, k)
    /\ running[k].job = "daily"
    /\ running[k].pc = "persist"
    /\ LET article_count == Min2(running[k].unprocessed_count, BatchLimit)
           ins == InsertPendingBatch(pending_batches,
                                     PendingBatch(running[k].batch_id, article_count, now))
       IN  /\ pending_batches' = ins.pending_batches
           /\ last' = IF ins.raised
                      THEN DailyReturn(running[k], Null, 0, "persist")
                      ELSE DailyReturn(running[k], Some(running[k].batch_id),
                                       article_count, "none")
    /\ running' = Finish(running, k, FALSE)
    /\ UNCHANGED <<articles, notifications, profile, provider, now, tick, batch_results>>

DailyStep ==
    \E k \in 1..MaxRunning :
        \/ DailyCount(k)
        \/ \E submit_ok \in BOOLEAN : DailyCreate(k, submit_ok)
        \/ DailyPersist(k)

\* `mindscout fetch`, in a process of its own: store_articles adds an article.
CliFetch ==
    /\ Len(articles) < MaxItems
    /\ articles' = StoreArticles(articles, 1)
    /\ UNCHANGED <<notifications, profile, pending_batches, provider, now, tick,
                   batch_results, running, last>>

\* `mindscout process --limit <limit>`, in a process of its own: process_batch
\* commits.
CliProcess(limit, outcomes) ==
    /\ DOMAIN outcomes = SelectForBatch(articles, limit)
    /\ DOMAIN outcomes # {}
    /\ LET r == ProcessBatch(articles, notifications, profile, limit, outcomes, now)
       IN  /\ articles' = r.articles
           /\ notifications' = r.notifications
    /\ UNCHANGED <<profile, pending_batches, provider, now, tick, batch_results,
                   running, last>>

DailyNext ==
    \/ \E new \in 0..1, interests_ok \in BOOLEAN : DailyBegin("scheduled", new, interests_ok)
    \/ DailyStep
    \/ CliFetch
    \/ \E outcomes \in [SelectForBatch(articles, 1) -> SyncOutcomes] : CliProcess(1, outcomes)

\* The empty store of Init, with the profile that holds interests.
DailyInit == Init /\ profile = NlpProfile

DailySpec == DailyInit /\ [][DailyNext]_vars

\* ------------------------- the jobs on the event loop (LoopSpec)
\* check_pending_batches_job as a call on the loop, up to the query.
CheckBegin(init_ok) ==
    /\ CanStart("check", "scheduled", running)
    /\ IF ~init_ok
       THEN /\ running' = running
            /\ last' = TickReturn(NoCounts)
       ELSE /\ running' = Append(running,
                    [job |-> "check", origin |-> "scheduled", pc |-> "loop",
                     todo |-> InIdOrder(LoadOpenBatches(pending_batches)),
                     sess |-> [j \in LoadOpenBatches(pending_batches) |->
                                  pending_batches[j]],
                     counts |-> NoCounts, seen |-> <<>>])
            /\ last' = [op |-> "check_running",
                        after |-> IF last.op = "raised" THEN last.job ELSE "none"]
    /\ UNCHANGED <<articles, notifications, profile, pending_batches, provider, now,
                   tick, batch_results>>

\* One pass of the loop of call k.
CheckStep(k, answer, fetch_ok, results) ==
    /\ CanStep(running, k)
    /\ running[k].job = "check"
    /\ running[k].todo # <<>>
    /\ LET call == running[k]
           j == Head(call.todo)
           applied == ApplyBatchResults(fetch_ok, results, articles, notifications,
                                        profile, now)
           h == CheckBatch(call.sess[j], call.counts, answer, applied.updated_count, now)
       IN  /\ articles' = IF answer = "ended" THEN applied.articles ELSE articles
           /\ notifications' = IF answer = "ended" THEN applied.notifications
                               ELSE notifications
           /\ running' = [running EXCEPT ![k] =
                             [call EXCEPT !.todo = RestAfter(call.todo, answer),
                                          !.sess = [call.sess EXCEPT ![j] = h.row],
                                          !.counts = h.counts,
                                          !.seen = Extend(call.seen, j, answer)]]
    /\ UNCHANGED <<profile, pending_batches, provider, now, tick, batch_results, last>>

\* The with-block ends: commit and return, or (commit_ok = FALSE) the commit
\* raises, get_db_session rolls back and the exception leaves the job.
CheckEnd(k, commit_ok) ==
    /\ CanStep(running, k)
    /\ running[k].job = "check"
    /\ running[k].todo = <<>>
    /\ IF commit_ok
       THEN /\ pending_batches' = Commit(pending_batches, running[k].sess)
            /\ last' = TickReturn(running[k].counts)
       ELSE /\ pending_batches' = pending_batches
            /\ last' = [op |-> "raised", job |-> "check", origin |-> running[k].origin]
    /\ running' = Finish(running, k, ~commit_ok)
    /\ UNCHANGED <<articles, notifications, profile, provider, now, tick, batch_results>>

CheckLoop ==
    \E k \in 1..MaxRunning :
        \/ \E answer \in Answers \ {"ended"} : CheckStep(k, answer, TRUE, <<>>)
        \/ /\ k \in DOMAIN running
           /\ running[k].job = "check"
           /\ running[k].todo # <<>>
           /\ \E results \in ProviderResults(running[k].sess[Head(running[k].todo)].batch_id) :
                 CheckStep(k, "ended", TRUE, results)
        \/ CheckStep(k, "ended", FALSE, <<>>)

LoopNext ==
    \/ \E origin \in {"scheduled", "manual"}, new \in 0..1, interests_ok \in BOOLEAN :
          DailyBegin(origin, new, interests_ok)
    \/ DailyStep
    \/ \E init_ok \in BOOLEAN : CheckBegin(init_ok)
    \/ CheckLoop
    \/ \E k \in 1..MaxRunning, commit_ok \in BOOLEAN : CheckEnd(k, commit_ok)

\* The application some days in: the articles of earlier runs are processed
\* and their batches completed; the runs to come ingest and submit the rest.
EarlierResults == [i \in 1..(MaxItems - 1) |-> <<"Nlp">>]

EarlierApplied ==
    ApplyBatchResults(TRUE, EarlierResults, [i \in 1..(MaxItems - 1) |-> NewArticle],
                      <<>>, NlpProfile, 0)

LoopInit ==
    /\ articles = EarlierApplied.articles
    /\ notifications = EarlierApplied.notifications
    /\ profile = NlpProfile
    /\ provider = [b \in 1..(MaxBatches - 1) |-> 1..(MaxItems - 1)]
    /\ pending_batches =
          [b \in 1..(MaxBatches - 1) |->
              CheckBatch(PendingBatch(b, Min2(MaxItems - 1, BatchLimit), 0), NoCounts,
                         "ended", EarlierApplied.updated_count, 0).row]
    /\ now = 0
    /\ tick = IdleTick
    /\ batch_results = <<>>
    /\ running = <<>>
    /\ last = [op |-> "init"]

LoopSpec == LoopInit /\ [][LoopNext]_vars

\* ------------------------------------------- get_batch_results (FetchSpec)
\* len(t) of the strings the model uses.
StrLen(s) == CASE s = "" -> 0
               [] s = "ml" -> 2
               [] s = "Nlp" -> 3
               [] s = "Vision" -> 6
               [] OTHER -> 3

\* The pieces response_text.split(",") can give, and the texts: one piece or
\* more (split never gives an empty list).
Pieces == {"Nlp", " Vision", "ml", " "}
Texts == UNION { [1..n -> Pieces] : n \in 1..2 }

\* One entry of client.messages.batches.results(batch_id): result.type, and
\* for a succeeded request message.content, a list that holds the text block
\* or (Null) holds nothing.
Entries ==
    { [type |-> "succeeded", content |-> Some(text)] : text \in Texts }
    \cup { [type |-> "succeeded", content |-> Null] }
    \cup { [type |-> ty, content |-> Null] : ty \in {"errored", "expired"} }

\* An entry whose answer cannot be read: entry.result.message.content[0]
\* raises IndexError.
Malformed(entry) == entry.type = "succeeded" /\ entry.content = Null

RECURSIVE Keep(_)
\* [t for t in topics if t and len(t) > 2]
Keep(topics) ==
    IF topics = <<>>
    THEN <<>>
    ELSE (IF Head(topics) # "" /\ StrLen(Head(topics)) > 2 THEN <<Head(topics)>> ELSE <<>>)
         \o Keep(Tail(topics))

\* topics = [t.strip() for t in response_text.split(",")]; filtered; [:5]
ParseTopics(text) ==
    LET topics == Keep([k \in DOMAIN text |-> Strip(text[k])])
    IN  SubSeq(topics, 1, Min2(Len(topics), MaxTopics))

\* The body of the loop for one entry: its topics, [] when the request did
\* not succeed.
EntryTopics(entry) ==
    IF entry.type = "succeeded" THEN ParseTopics(entry.content[1]) ELSE <<>>

\* get_batch_results(batch_id), entries being what the provider streams
\* (custom_id -> entry): [raised, results]. Nothing in the method catches the
\* exception a malformed entry raises: it leaves the loop and the method.
GetBatchResults(entries) ==
    IF \E id \in DOMAIN entries : Malformed(entries[id])
    THEN [raised |-> TRUE, results |-> <<>>]
    ELSE [raised |-> FALSE, results |-> [id \in DOMAIN entries |-> EntryTopics(entries[id])]]

\* The provider's stream for a batch: entries for any set of custom_ids.
EntryStreams == UNION { [ids -> Entries] : ids \in SUBSET ResultIds }

\* results = self.llm.get_batch_results(batch_id)
FetchResults(entries) ==
    LET r == GetBatchResults(entries)
    IN  /\ batch_results' = r.results
        /\ last' = [op |-> "get_batch_results", entries |-> entries,
                    raised |-> r.raised, results |-> r.results]
        /\ UNCHANGED <<articles, notifications, profile, pending_batches, provider, now,
                       tick, running>>

FetchNext == \E entries \in EntryStreams : FetchResults(entries)

FetchSpec == DailyInit /\ [][FetchNext]_vars

\* ------------------------------------ overlapping Apply calls (RaceSpec)
\* apply_batch_results calls in different processes, each with a session of
\* its own (get_session()). A session keeps what the call wrote until
\* session.commit(); its queries see the committed rows under its own writes.
Overlay(arts, writes) ==
    [i \in DOMAIN arts |-> IF i \in DOMAIN writes THEN writes[i] ELSE arts[i]]

\* The store before the calls, and the result set they all fetch.
RaceInit ==
    /\ articles \in UNION { [1..k -> StoredArticles] : k \in 0..MaxRaceItems }
    /\ batch_results \in UNION { [ids -> TopicLists] : ids \in SUBSET (1..MaxRaceItems) }
    /\ notifications = <<>>
    /\ profile = NlpProfile
    /\ pending_batches = <<>>
    /\ provider = <<>>
    /\ now = 0
    /\ tick = IdleTick
    /\ running = <<>>
    /\ last = [op |-> "race", before |-> articles, started |-> 0, committed |-> 0,
                overlapped |-> FALSE]

\* session = get_session(); results = self.llm.get_batch_results(batch_id).
\* fetch_ok = FALSE: the fetch raises, the call rolls back and returns (0, 0).
ApplyBegin(fetch_ok) ==
    /\ last.started < MaxCalls
    /\ running' = IF fetch_ok
                  THEN Append(running, [job |-> "apply", pc |-> "loop",
                                        todo |-> InIdOrder(DOMAIN batch_results),
                                        writes |-> <<>>, notes |-> <<>>,
                                        updated_count |-> 0, failed_count |-> 0])
                  ELSE running
    /\ last' = [last EXCEPT !.started = @ + 1,
                            !.overlapped = @ \/ (fetch_ok /\ running # <<>>)]
    /\ UNCHANGED <<articles, notifications, profile, pending_batches, provider, now,
                   tick, batch_results>>

\* One pass of the loop over results.items() in call k.
ApplyStep(k) ==
    /\ k \in DOMAIN running
    /\ running[k].job = "apply"
    /\ running[k].todo # <<>>
    /\ LET call == running[k]
           article_id == Head(call.todo)
           seen == Overlay(articles, call.writes)
           st == ApplyOne([articles |-> seen,
                           notifications |-> notifications \o call.notes,
                           updated_count |-> call.updated_count,
                           failed_count |-> call.failed_count, raised |-> FALSE],
                          article_id, batch_results[article_id], profile, now)
           dirty == {i \in DOMAIN seen : st.articles[i] # seen[i]} \cup DOMAIN call.writes
       IN  running' = [running EXCEPT ![k] =
                         [call EXCEPT !.todo = Tail(call.todo),
                                      !.writes = [i \in dirty |-> st.articles[i]],
                                      !.notes = SubSeq(st.notifications,
                                                       Len(notifications) + 1,
                                                       Len(st.notifications)),
                                      !.updated_count = st.updated_count,
                                      !.failed_count = st.failed_count]]
    /\ UNCHANGED <<articles, notifications, profile, pending_batches, provider, now,
                   tick, batch_results, last>>

\* session.commit() of call k, or (commit_ok = FALSE) an exception and
\* session.rollback(); then the call returns.
ApplyCommit(k, commit_ok) ==
    /\ k \in DOMAIN running
    /\ running[k].job = "apply"
    /\ running[k].todo = <<>>
    /\ IF commit_ok
       THEN /\ articles' = Overlay(articles, running[k].writes)
            /\ notifications' = notifications \o running[k].notes
            /\ last' = [last EXCEPT !.committed = @ + 1]
       ELSE UNCHANGED <<articles, notifications, last>>
    /\ running' = Remove(running, k)
    /\ UNCHANGED <<profile, pending_batches, provider, now, tick, batch_results>>

RaceNext ==
    \/ \E fetch_ok \in BOOLEAN : ApplyBegin(fetch_ok)
    \/ \E k \in 1..MaxCalls : ApplyStep(k)
    \/ \E k \in 1..MaxCalls, commit_ok \in BOOLEAN : ApplyCommit(k, commit_ok)

RaceSpec == RaceInit /\ [][RaceNext]_vars

\* ------------------------------- the counting loops, pass by pass (CountSpec)
\* process_batch(limit) in a process of its own: session = get_session() and
\* query.all(). The session keeps the rows as it loaded them.
ProcBegin(limit) ==
    /\ Len(running) < MaxRunning
    /\ running' = Append(running,
                         [job |-> "process", pc |-> "loop",
                          todo |-> InIdOrder(SelectForBatch(articles, limit)),
                          loaded |-> articles,
                          writes |-> <<>>, notes |-> <<>>,
                          processed_count |-> 0, failed_count |-> 0])
    /\ UNCHANGED <<articles, notifications, profile, pending_batches, provider, now,
                   tick, batch_results, last>>

\* One pass of `for article in batch` in call k.
ProcStep(k, outcome) ==
    /\ k \in DOMAIN running
    /\ running[k].job = "process"
    /\ running[k].todo # <<>>
    /\ LET call == running[k]
           article_id == Head(call.todo)
           seen == Overlay(call.loaded, call.writes)
           st == ProcessOne([articles |-> seen,
                             notifications |-> notifications \o call.notes,
                             processed_count |-> call.processed_count,
                             failed_count |-> call.failed_count],
                            article_id, outcome, profile, now)
           dirty == {i \in DOMAIN seen : st.articles[i] # seen[i]} \cup DOMAIN call.writes
       IN  running' = [running EXCEPT ![k] =
                         [call EXCEPT !.todo = Tail(call.todo),
                                      !.writes = [i \in dirty |-> st.articles[i]],
                                      !.notes = SubSeq(st.notifications,
                                                       Len(notifications) + 1,
                                                       Len(st.notifications)),
                                      !.processed_count = st.processed_count,
                                      !.failed_count = st.failed_count]]
    /\ UNCHANGED <<articles, notifications, profile, pending_batches, provider, now,
                   tick, batch_results, last>>

\* session.commit() after the chunk, or (commit_ok = FALSE) an exception and
\* session.rollback(); then the call returns its counts.
ProcCommit(k, commit_ok) ==
    /\ k \in DOMAIN running
    /\ running[k].job = "process"
    /\ running[k].todo = <<>>
    /\ IF commit_ok
       THEN /\ articles' = Overlay(articles, running[k].writes)
            /\ notifications' = notifications \o running[k].notes
       ELSE UNCHANGED <<articles, notifications>>
    /\ running' = Remove(running, k)
    /\ UNCHANGED <<profile, pending_batches, provider, now, tick, batch_results, last>>

\* ------------------------------------------- the batch check alone (PollSpec)
\* Every processing_status the job's branches tell apart, and one more state
\* that is not terminal ("canceling").
AllAnswers == Answers \cup {"canceled", "canceling"}

\* The ledger as daily runs left it: some articles, none processed yet, and
\* pending batches that each hold all of them.
PollInit ==
    /\ \E n \in 1..MaxFetched, k \in 1..MaxBatches :
          /\ articles = [i \in 1..n |-> NewArticle]
          /\ provider = [b \in 1..k |-> 1..n]
          /\ pending_batches = [b \in 1..k |-> PendingBatch(b, Min2(n, BatchLimit), 0)]
    /\ notifications = <<>>
    /\ profile = NlpProfile
    /\ now = 0
    /\ tick = IdleTick
    /\ batch_results = <<>>
    /\ running = <<>>
    /\ last = [op |-> "init"]

PollLoop ==
    \/ \E answer \in AllAnswers \ {"ended"} : TickStep(answer, TRUE, <<>>)
    \/ /\ tick.pc = "loop"
       /\ tick.todo # <<>>
       /\ \E results \in ProviderResults(tick.sess[Head(tick.todo)].batch_id) :
             TickStep("ended", TRUE, results)
    \/ TickStep("ended", FALSE, <<>>)

PollNext ==
    \/ \E init_ok \in BOOLEAN : TickStart(init_ok)
    \/ PollLoop
    \/ TickEnd

PollSpec == PollInit /\ [][PollNext]_vars

\* Each loop from a ledger that gives it work: apply_batch_results and
\* process_batch calls, one after the other, on a store with a result set to
\* apply, or the batch check over submitted batches.
CountInit == RaceInit \/ PollInit

CountNext ==
    \/ /\ last.op = "race"
       /\ running = <<>>
       /\ \/ \E fetch_ok \in BOOLEAN : ApplyBegin(fetch_ok)
          \/ ProcBegin(0)
    \/ /\ last.op = "race"
       /\ \/ ApplyStep(1)
          \/ \E commit_ok \in BOOLEAN : ApplyCommit(1, commit_ok)
          \/ \E outcome \in SyncOutcomes : ProcStep(1, outcome)
          \/ \E commit_ok \in BOOLEAN : ProcCommit(1, commit_ok)
    \/ /\ last.op # "race"
       /\ PollNext

CountSpec == CountInit /\ [][CountNext]_vars

\* ------------------------------- batches open beside the CLI (PipeSpec)
\* The ledger some runs in: the articles fetched are not processed yet, the
\* last daily run's batch is pending, the batches before it expired.
PipeInit ==
    /\ articles = [i \in 1..MaxFetched |-> NewArticle]
    /\ provider = [b \in 1..(MaxBatches - 1) |-> 1..MaxFetched]
    /\ pending_batches =
          [b \in 1..(MaxBatches - 1) |->
              IF b < MaxBatches - 1
              THEN CheckBatch(PendingBatch(b, Min2(MaxFetched, BatchLimit), 0), NoCounts,
                              "expired", 0, 0).row
              ELSE PendingBatch(b, Min2(MaxFetched, BatchLimit), 0)]
    /\ notifications = <<>>
    /\ profile = NlpProfile
    /\ now = 0
    /\ tick = IdleTick
    /\ batch_results = <<>>
    /\ running = <<>>
    /\ last = [op |-> "init"]

\* Everything that touches the ledger from then on: the batch check, later
\* daily runs, and `mindscout process` in a process of its own.
PipeNext ==
    \/ Tick
    \/ \E submit_ok \in BOOLEAN : FetchAndProcessJob(0, submit_ok)
    \/ \E outcomes \in [SelectForBatch(articles, 1) -> SyncOutcomes] : CliProcess(1, outcomes)

PipeSpec == PipeInit /\ [][PipeNext]_vars

\* ------------------------------- apply, then submit again (RetrySpec)
\* processor.create_async_batch(limit), called as the daily job and the
\* tests call it. after_apply: the call before it was an Apply.
CreateBatch(limit, submit_ok) ==
    LET b == CreateAsyncBatch(articles, limit, submit_ok, provider)
    IN  /\ ~b.raised => Len(provider) < MaxBatches
        /\ provider' = b.provider
        /\ last' = [op |-> "create", limit |-> limit, raised |-> b.raised,
                    batch_id |-> b.batch_id, after_apply |-> last.op = "apply"]
        /\ UNCHANGED <<articles, notifications, profile, pending_batches, now, tick,
                       batch_results, running>>

RetryInit == ApplyInit /\ profile = NlpProfile

RetryNext ==
    \/ Apply
    \/ \E limit \in {0, 1, BatchLimit}, submit_ok \in BOOLEAN : CreateBatch(limit, submit_ok)

RetrySpec == RetryInit /\ [][RetryNext]_vars

\* ------------------------------- rows added to the ledger (LedgerSpec)
\* with get_db_session() as session: session.add(PendingBatch(batch_id=...,
\* article_count=...)), as the tests add rows.
AddPendingBatch(batch_id, article_count) ==
    LET ins == InsertPendingBatch(pending_batches,
                                  PendingBatch(batch_id, article_count, now))
    IN  /\ pending_batches' = ins.pending_batches
        /\ last' = [op |-> "add_batch", batch_id |-> batch_id,
                    article_count |-> article_count, raised |-> ins.raised]
        /\ UNCHANGED <<articles, notifications, profile, provider, now, tick,
                       batch_results, running>>

LedgerNext ==
    \/ \E batch_id \in 1..MaxBatches, article_count \in 1..MaxItems :
          AddPendingBatch(batch_id, article_count)
    \/ \E new \in 0..1, interests_ok \in BOOLEAN : DailyBegin("scheduled", new, interests_ok)
    \/ DailyStep

LedgerSpec == DailyInit /\ [][LedgerNext]_vars

\* ------------------------------- a batch check that is cut short (AbandonSpec)
\* The run ends inside the loop by an exception the loop's `except Exception`
\* does not catch (KeyboardInterrupt, SystemExit while get_batch_status
\* waits): get_db_session never reaches session.commit(), session.close()
\* drops what the session holds. handled: the rows of the passes made, as the
\* session held them.
TickInterrupt ==
    /\ tick.pc = "loop"
    /\ tick.todo # <<>>
    /\ tick' = IdleTick
    /\ last' = [op |-> "interrupted",
                handled |-> [j \in DOMAIN tick.seen |-> tick.sess[j]]]
    /\ UNCHANGED <<articles, notifications, profile, pending_batches, provider, now,
                   batch_results, running>>

AbandonNext == PollNext \/ TickInterrupt

AbandonSpec == PollInit /\ [][AbandonNext]_vars

\* ------------------------ the daily job's fetch steps, source by source (IngestSpec)
\* interests[:5]: the interests the arXiv step searches for.
ArxivInterests == 5

RECURSIVE StripAll(_)
StripAll(interests) ==
    IF interests = <<>> THEN <<>>
    ELSE LET rest == StripAll(Tail(interests))
         IN  IF Strip(Head(interests)) # "" THEN <<Strip(Head(interests))>> \o rest
             ELSE rest

\* get_user_interests(): [i.strip() for i in profile.interests.split(",") if i.strip()]
GetUserInterests(prof) ==
    IF prof.exists /\ prof.interests # <<>> THEN StripAll(prof.interests) ELSE <<>>

ExceptExceptionReraises(raised) == raised

\* try: ... except Exception as e: logger.error(...): does the exception of a
\* fetch step leave the job? The handler logs it and falls through.
ExceptException(raised) == FALSE

\* What one call of a fetcher can do: raise, or store `count` new articles.
FetchOutcomes == {o \in [raised : BOOLEAN, count : 0..1] : o.raised => o.count = 0}

\* Step 1. RSSFetcher().refresh_all_feeds() raises before any feed is fetched
\* (the query of the active feeds); a feed that fails is skipped inside it.
RefreshAllFeeds(arts, rss) ==
    IF rss.raised
    THEN [raised |-> TRUE, articles |-> arts, count |-> 0]
    ELSE [raised |-> FALSE, articles |-> StoreArticles(arts, rss.count),
          count |-> rss.count]

\* Step 2. for interest in interests[:5]: count = fetcher.fetch_and_store(...);
\* results["arxiv"]["articles"] += count. fetch_and_store commits what it
\* stores, or rolls back and raises; the raise ends the loop with the count
\* of the interests before it.
RECURSIVE FetchArxiv(_, _, _)
FetchArxiv(arts, outcomes, count) ==
    IF outcomes = <<>> THEN [raised |-> FALSE, articles |-> arts, count |-> count]
    ELSE IF Head(outcomes).raised
    THEN [raised |-> TRUE, articles |-> arts, count |-> count]
    ELSE FetchArxiv(StoreArticles(arts, Head(outcomes).count), Tail(outcomes),
                    count + Head(outcomes).count)

\* What SemanticScholarFetcher and its base class BaseFetcher define.
SemanticScholarFetcherMethods ==
    {"fetch", "_parse_paper", "get_paper_by_arxiv_id", "store_articles",
     "_update_article", "fetch_and_store", "normalize_article"}

\* Step 3. articles = ss_fetcher.fetch(...); ss_count = ss_fetcher.store_articles(articles);
\* ss_fetcher.close(); results["semanticscholar"]["articles"] = ss_count.
\* store_articles commits; a call of a method the fetcher does not have raises
\* AttributeError before the count reaches the results.
FetchSemanticScholar(arts, ss) ==
    IF ss.raised
    THEN [raised |-> TRUE, articles |-> arts, count |-> 0]
    ELSE IF "close" \notin SemanticScholarFetcherMethods
    THEN [raised |-> TRUE, articles |-> StoreArticles(arts, ss.count), count |-> 0]
    ELSE [raised |-> FALSE, articles |-> StoreArticles(arts, ss.count),
          count |-> ss.count]

NoFetch(arts) == [raised |-> FALSE, articles |-> arts, count |-> 0]

\* fetch_and_process_job(), the whole coroutine. `ran` lists the steps the run
\* entered, `failed` the fetch steps that raised, `stored` the articles each
\* fetch step added to the table; the counts are those of the returned results.
IngestJob(interests_ok, rss, arxiv, ss, submit_ok) ==
    LET interests == GetUserInterests(profile)
        r1 == RefreshAllFeeds(articles, rss)
        out1 == ExceptException(r1.raised)
        r2 == IF interests # <<>> THEN FetchArxiv(r1.articles, arxiv, 0)
              ELSE NoFetch(r1.articles)
        out2 == ~out1 /\ ExceptException(r2.raised)
        r3 == IF interests # <<>> THEN FetchSemanticScholar(r2.articles, ss)
              ELSE NoFetch(r2.articles)
        out3 == ~out1 /\ ~out2 /\ ExceptException(r3.raised)
        arts == IF out1 THEN r1.articles ELSE IF out2 THEN r2.articles ELSE r3.articles
        escaped == ~interests_ok \/ out1 \/ out2 \/ out3
        unprocessed_count == Cardinality(UnprocessedIds(arts))
        b == CreateAsyncBatch(arts, BatchLimit, submit_ok, provider)
        row == PendingBatch(b.batch_id, Min2(unprocessed_count, BatchLimit), now)
        ins == InsertPendingBatch(pending_batches, row)
        created == ~escaped /\ unprocessed_count > 0 /\ ~b.raised
        ran == IF ~interests_ok THEN {}
               ELSE {"rss"}
                    \cup (IF ~out1 /\ interests # <<>> THEN {"arxiv"} ELSE {})
                    \cup (IF ~out1 /\ ~out2 /\ interests # <<>>
                          THEN {"semanticscholar"} ELSE {})
                    \cup (IF ~escaped THEN {"batch"} ELSE {})
    IN  /\ running = <<>>
        /\ tick.pc = "idle"
        /\ DOMAIN arxiv = 1..Min2(ArxivInterests, Len(interests))
        /\ interests = <<>> => ss = [raised |-> FALSE, count |-> 0]
        /\ Len(r3.articles) <= MaxItems
        /\ created => Len(provider) < MaxBatches
        /\ articles' = IF interests_ok THEN arts ELSE articles
        /\ provider' = IF created THEN b.provider ELSE provider
        /\ pending_batches' = IF created THEN ins.pending_batches ELSE pending_batches
        /\ last' = [op |-> "ingest",
                    raised |-> escaped,
                    interests |-> Len(interests),
                    ran |-> ran,
                    failed |-> (IF interests_ok /\ r1.raised THEN {"rss"} ELSE {})
                               \cup (IF "arxiv" \in ran /\ r2.raised THEN {"arxiv"} ELSE {})
                               \cup (IF "semanticscholar" \in ran /\ r3.raised
                                     THEN {"semanticscholar"} ELSE {}),
                    rss |-> IF "rss" \in ran THEN r1.count ELSE 0,
                    arxiv |-> IF "arxiv" \in ran THEN r2.count ELSE 0,
                    semanticscholar |-> IF "semanticscholar" \in ran THEN r3.count ELSE 0,
                    stored |-> [rss |-> IF "rss" \in ran
                                        THEN Len(r1.articles) - Len(articles) ELSE 0,
                                arxiv |-> IF "arxiv" \in ran
                                          THEN Len(r2.articles) - Len(r1.articles) ELSE 0,
                                semanticscholar |->
                                          IF "semanticscholar" \in ran
                                          THEN Len(r3.articles) - Len(r2.articles) ELSE 0],
                    batch_id |-> IF created /\ ~ins.raised THEN Some(b.batch_id) ELSE Null,
                    batch_articles |-> IF created /\ ~ins.raised
                                       THEN Min2(unprocessed_count, BatchLimit) ELSE 0]
        /\ UNCHANGED <<notifications, profile, now, tick, batch_results, running>>

IngestNext ==
    \E interests_ok, submit_ok \in BOOLEAN, rss, ss \in FetchOutcomes,
       arxiv \in [1..Min2(ArxivInterests, Len(GetUserInterests(profile))) -> FetchOutcomes] :
        IngestJob(interests_ok, rss, arxiv, ss, submit_ok)

IngestSpec == Init /\ [][IngestNext]_vars

\* ------------------------------- what a batch is built from (SelectSpec)
QueryAllArticles(arts) == [k \in 1..Len(arts) |-> k]

\* session.query(Article).filter(Article.processed == False): the ids of the
\* rows, in id order.
QueryUnprocessed(arts) ==
    SelectSeq([k \in 1..Len(arts) |-> k], LAMBDA i : ~arts[i].processed)

\* if limit: query = query.limit(limit)  (no limit is written 0)
QueryLimit(rows, limit) ==
    IF limit = 0 THEN rows ELSE SubSeq(rows, 1, Min2(limit, Len(rows)))

\* batch_data = [{"id": str(article.id), ...} for article in articles]
BatchData(arts, limit) ==
    LET rows == QueryLimit(QueryUnprocessed(arts), limit)
    IN  [k \in DOMAIN rows |-> [id |-> rows[k]]]

\* create_topic_extraction_batch: requests.append({"custom_id": str(article["id"]), ...})
TopicExtractionRequests(batch_data) ==
    [k \in DOMAIN batch_data |-> [custom_id |-> batch_data[k].id]]

\* processor.create_async_batch(limit) with the requests it hands to
\* client.messages.batches.create; `submitted` is what the provider holds
\* for the batch.
SubmitBatch(limit, submit_ok) ==
    LET b == CreateAsyncBatch(articles, limit, submit_ok, provider)
        requests == TopicExtractionRequests(BatchData(articles, limit))
    IN  /\ ~b.raised => Len(provider) < MaxBatches
        /\ provider' = b.provider
        /\ last' = [op |-> "submit", limit |-> limit, raised |-> b.raised,
                    requests |-> requests,
                    submitted |-> IF b.raised THEN {} ELSE b.provider[b.batch_id]]
        /\ UNCHANGED <<articles, notifications, profile, pending_batches, now, tick,
                       batch_results, running>>

SelectNext ==
    \/ Apply
    \/ \E limit \in {0, 1, BatchLimit}, submit_ok \in BOOLEAN : SubmitBatch(limit, submit_ok)

SelectSpec == RetryInit /\ [][SelectNext]_vars

\* ------------------------------ poll_batch_until_complete (WaitSpec)
\* The provider's stream for the batch the loop waits for: one request,
\* answered well, answered with no content, or errored.
PolledStreams ==
    [{1} -> {[type |-> "succeeded", content |-> Some(<<"Nlp">>)],
             [type |-> "succeeded", content |-> Null],
             [type |-> "errored", content |-> Null]}]

TimeoutCheckedFirst(answer, elapsed, max_wait) ==
    IF answer = "raise" THEN "raised"
    ELSE IF elapsed > max_wait THEN "timeout"
    ELSE IF answer = "ended" THEN "results"
    ELSE "sleep"

\* One pass of `while True` down to the sleep (lines 339-347): where the
\* status and the time elapsed send the loop. The status is looked at first.
AfterPoll(answer, elapsed, max_wait) ==
    IF answer = "raise" THEN "raised"
    ELSE IF answer = "ended" THEN "results"
    ELSE IF elapsed > max_wait THEN "timeout"
    ELSE "sleep"

\* llm.poll_batch_until_complete(batch_id, poll_interval, max_wait) is called:
\* start_time = time.time().
WaitBegin(poll_interval, max_wait) ==
    /\ running = <<>>
    /\ now <= MaxTime
    /\ running' = <<[job |-> "wait", pc |-> "poll", start_time |-> now,
                     poll_interval |-> poll_interval, max_wait |-> max_wait,
                     seen |-> <<>>, fetched |-> FALSE]>>
    /\ last' = [op |-> "wait_running"]
    /\ UNCHANGED <<articles, notifications, profile, pending_batches, provider, now, tick,
                   batch_results>>

\* How the call ended, with the polls it made.
WaitReturn(inst, exit) ==
    [op |-> "wait", exit |-> exit, max_wait |-> inst.max_wait, seen |-> inst.seen,
     fetched |-> inst.fetched]

\* status = self.get_batch_status(batch_id) and the two tests on it.
\* answer = "raise" is the call raising: nothing here catches it.
WaitPoll(answer) ==
    /\ running # <<>>
    /\ running[1].job = "wait"
    /\ running[1].pc = "poll"
    /\ LET elapsed == now - running[1].start_time
           inst == [running[1] EXCEPT
                       !.seen = Append(@, [status |-> answer, elapsed |-> elapsed])]
           next == AfterPoll(answer, elapsed, inst.max_wait)
       IN  IF next \in {"raised", "timeout"}
           THEN /\ running' = <<>>
                /\ last' = WaitReturn(inst, IF next = "timeout" THEN "TimeoutError"
                                            ELSE "raised")
           ELSE /\ running' = <<[inst EXCEPT !.pc = next]>>
                /\ UNCHANGED last
    /\ UNCHANGED <<articles, notifications, profile, pending_batches, provider, now, tick,
                   batch_results>>

\* return self.get_batch_results(batch_id)
WaitResults(entries) ==
    /\ running # <<>>
    /\ running[1].job = "wait"
    /\ running[1].pc = "results"
    /\ LET r == GetBatchResults(entries)
           inst == [running[1] EXCEPT !.fetched = TRUE]
       IN  /\ batch_results' = r.results
           /\ last' = WaitReturn(inst, IF r.raised THEN "raised" ELSE "results")
    /\ running' = <<>>
    /\ UNCHANGED <<articles, notifications, profile, pending_batches, provider, now, tick>>

\* time.sleep(poll_interval): the clock is poll_interval further, or more.
WaitSleep(slept) ==
    /\ running # <<>>
    /\ running[1].job = "wait"
    /\ running[1].pc = "sleep"
    /\ slept >= running[1].poll_interval
    /\ now' = now + slept
    /\ running' = <<[running[1] EXCEPT !.pc = "poll"]>>
    /\ UNCHANGED <<articles, notifications, profile, pending_batches, provider, tick,
                   batch_results, last>>

\* The thread in poll_batch_until_complete runs on.
WaitStep ==
    \/ \E answer \in Answers : WaitPoll(answer)
    \/ \E entries \in PolledStreams : WaitResults(entries)
    \/ \E slept \in 1..MaxInterval : WaitSleep(slept)

WaitNext ==
    \/ \E poll_interval \in 1..MaxInterval, max_wait \in 0..MaxWait :
          WaitBegin(poll_interval, max_wait)
    \/ WaitStep

WaitSpec == DailyInit /\ [][WaitNext]_vars /\ WF_vars(WaitStep)

\* ------------------------------- process_article, called directly (ArticleSpec)
\* What process_article meets: _ensure_llm cannot make its client (LLMClient()
\* raises ValueError without an API key), or self.llm.extract_topics raises,
\* or the model answers with a text.
LlmOutcomes ==
    {[client |-> FALSE, raised |-> FALSE, text |-> <<>>],
     [client |-> TRUE, raised |-> TRUE, text |-> <<>>]}
    \cup {[client |-> TRUE, raised |-> FALSE, text |-> t] : t \in Texts}

\* extract_topics: topics = [topic.strip() for topic in response.split(",")];
\* topics = [t for t in topics if t and len(t) > 2][:max_topics]
ExtractTopics(text) == ParseTopics(text)

SkipsNothing(article, force) == FALSE

\* if article.processed and not force: return False
Skips(article, force) == article.processed /\ ~force

ArticleAtRaiseMarked(article, t) ==
    [article EXCEPT !.processed = TRUE, !.processing_date = Some(t)]

\* The article when extract_topics raises: the call (line 61) comes before
\* the assignments (lines 66-73), and the handler assigns nothing.
ArticleAtRaise(article, t) == article

\* article.processed = True follows article.topics = json.dumps(topics)
\* whatever the list holds.
MarksProcessed(topics) == TRUE

\* process_article(article, force): [raised, result, article, calls], calls
\* counting the calls of extract_topics. _ensure_llm (line 48) is outside
\* the try: what it raises leaves process_article.
ProcessArticle(article, force, llm, t) ==
    IF Skips(article, force)
    THEN [raised |-> FALSE, result |-> FALSE, article |-> article, calls |-> 0]
    ELSE IF ~llm.client
    THEN [raised |-> TRUE, result |-> FALSE, article |-> article, calls |-> 0]
    ELSE IF llm.raised
    THEN [raised |-> FALSE, result |-> FALSE, article |-> ArticleAtRaise(article, t),
          calls |-> 1]
    ELSE LET topics == ExtractTopics(llm.text)
         IN  [raised |-> FALSE, result |-> TRUE,
              article |-> [article EXCEPT
                              !.topics = JsonDumps(topics),
                              !.processed = MarksProcessed(topics),
                              !.processing_date = Some(t)],
              calls |-> 1]

\* processor.process_article(article, force) on a stored article, as the
\* tests call it, and the commit of the caller's session.
ProcessArticleCall(article_id, force, llm) ==
    /\ ArticleExists(articles, article_id)
    /\ LET r == ProcessArticle(articles[article_id], force, llm, now)
       IN  /\ articles' = [articles EXCEPT ![article_id] = r.article]
           /\ last' = [op |-> "process_article", article_id |-> article_id,
                       force |-> force, llm_raised |-> llm.raised /\ r.calls > 0,
                       result |-> r.result, calls |-> r.calls, raised |-> r.raised]
    /\ UNCHANGED <<notifications, profile, pending_batches, provider, now, tick,
                   batch_results, running>>

\* Articles of earlier runs (processed at time 0, or not yet), looked at
\* later.
ArticleInit ==
    /\ articles \in UNION { [1..k -> StoredArticles] : k \in 0..MaxItems }
    /\ notifications = <<>>
    /\ profile = NlpProfile
    /\ pending_batches = <<>>
    /\ provider = <<>>
    /\ now = 1
    /\ tick = IdleTick
    /\ batch_results = <<>>
    /\ running = <<>>
    /\ last = [op |-> "init"]

ArticleNext ==
    \E article_id \in 1..MaxItems, force \in BOOLEAN, llm \in LlmOutcomes :
        ProcessArticleCall(article_id, force, llm)

ArticleSpec == ArticleInit /\ [][ArticleNext]_vars

\* ------------------- the batch check, the provider's results fixed (SettleSpec)
\* The ledger as PollInit has it; batch_results is what the provider returns
\* for a batch (each holds all the articles), whenever it is fetched.
SettleInit ==
    /\ \E n \in 1..MaxFetched, k \in 1..MaxBatches :
          /\ articles = [i \in 1..n |-> NewArticle]
          /\ provider = [b \in 1..k |-> 1..n]
          /\ pending_batches = [b \in 1..k |-> PendingBatch(b, Min2(n, BatchLimit), 0)]
          /\ batch_results \in [1..n -> TopicLists]
    /\ notifications = <<>>
    /\ profile = NlpProfile
    /\ now = 0
    /\ tick = IdleTick
    /\ running = <<>>
    /\ last = [op |-> "init"]

\* One pass of the loop: the status answered, and for an ended batch
\* apply_batch_results with its fetch going well or raising.
SettleLoop ==
    \/ \E answer \in AllAnswers \ {"ended"} : TickStep(answer, TRUE, <<>>)
    \/ \E fetch_ok \in BOOLEAN : TickStep("ended", fetch_ok, batch_results)

SettleNext ==
    \/ \E init_ok \in BOOLEAN : TickStart(init_ok)
    \/ SettleLoop
    \/ TickEnd

SettleSpec == SettleInit /\ [][SettleNext]_vars

\* ------------------------------------------------------------------ claims
InterestMatchTotal(notifs) ==
    Cardinality({k \in DOMAIN notifs : notifs[k].type = "interest_match"})

\* The results of the applied batch, by what the loop does with them.
Orphans == DOMAIN batch_results \ DOMAIN articles
WithTopics == {id \in DOMAIN batch_results \cap DOMAIN articles : batch_results[id] # <<>>}
WithoutTopics == {id \in DOMAIN batch_results \cap DOMAIN articles : batch_results[id] = <<>>}

\* C1: Apply is idempotent. When apply_batch_results is called a second time
\* right after a first call, with the same provider results and the profile
\* unchanged, the second call changes no article's processed flag or topics,
\* adds and removes no article, and leaves the number of interest_match
\* notifications as the first call left it.
C1_ApplyIdempotent ==
    [][ (last.op = "apply" /\ last'.op = "apply" /\ last' # last) =>
            /\ DOMAIN articles' = DOMAIN articles
            /\ \A i \in DOMAIN articles :
                  /\ articles'[i].processed = articles[i].processed
                  /\ articles'[i].topics = articles[i].topics
            /\ InterestMatchTotal(notifications') = InterestMatchTotal(notifications)
      ]_vars

\* A second Apply in a row that updated an article of a store holding an
\* interest_match notification.
C1_Witness ==
    /\ last.op = "apply"
    /\ last.repeat
    /\ last.updated >= 1
    /\ InterestMatchTotal(notifications) >= 1

\* C4: the processed guard. An Apply counts in updatedCount only the results
\* with topics whose article was not processed before the call, leaves an
\* article that was processed before the call as it was, and so a second
\* Apply in a row returns updatedCount = 0.
C4_ProcessedGuard ==
    [][ (last'.op = "apply" /\ last' # last) =>
            /\ \A id \in DOMAIN batch_results \cap DOMAIN articles :
                  articles[id].processed => articles'[id] = articles[id]
            /\ last'.updated =
                  Cardinality({id \in WithTopics : ~articles[id].processed})
            /\ last.op = "apply" => last'.updated = 0
      ]_vars

\* C5: partial isolation. When every result of the batch names an existing
\* article that was not processed before the call, Apply returns (s, e) for
\* s results with topics and e without; the s articles are processed and carry
\* the returned topics, the e articles are still unprocessed, and the articles
\* outside the batch are untouched.
C5_PartialIsolation ==
    (/\ last.op = "apply"
     /\ Orphans = {}
     /\ DOMAIN batch_results \cap last.pre = {})
    => /\ last.updated = Cardinality(WithTopics)
       /\ last.failed = Cardinality(WithoutTopics)
       /\ \A id \in WithTopics :
             /\ articles[id].processed
             /\ articles[id].topics = JsonDumps(batch_results[id])
       /\ \A id \in WithoutTopics : ~articles[id].processed
       /\ \A i \in DOMAIN articles \ DOMAIN batch_results :
             articles[i].processed <=> i \in last.pre

\* An Apply of a two-result batch over two unprocessed articles, one result
\* with topics and one without.
C5_Witness ==
    /\ last.op = "apply"
    /\ Orphans = {}
    /\ DOMAIN batch_results \cap last.pre = {}
    /\ Cardinality(WithTopics) = 1
    /\ Cardinality(WithoutTopics) = 1
    /\ last.updated = 1
    /\ last.failed = 1

\* C6: orphan safety. An Apply whose results name article ids that match no
\* article does not raise, counts each such result once in failedCount (next
\* to the results without topics), and still applies every result with topics
\* that names an existing article.
C6_OrphanSafety ==
    (last.op = "apply" /\ Orphans # {})
    => /\ ~last.raised
       /\ last.failed = Cardinality(Orphans) + Cardinality(WithoutTopics)
       /\ last.updated = Cardinality(WithTopics)
       /\ \A id \in WithTopics :
             /\ articles[id].processed
             /\ articles[id].topics = JsonDumps(batch_results[id])

\* An Apply that met one orphan result and applied another result of the
\* same batch to an article that was not processed before.
C6_Witness ==
    /\ last.op = "apply"
    /\ Cardinality(Orphans) = 1
    /\ last.failed = 1
    /\ last.updated = 1
    /\ \E id \in WithTopics : id \notin last.pre /\ articles[id].processed

\* C7: notification dedup. No article ever has two interest_match
\* notifications; a _create_interest_notification call that directly follows
\* a call for the same article returns False; and after a call for an article
\* whose topics intersect the interests there is exactly one interest_match
\* notification for it.
C7_NotificationDedup ==
    /\ \A i \in DOMAIN articles : InterestMatchCount(notifications, i) <= 1
    /\ (last.op = "notify" /\ last.repeat) => ~last.created
    /\ (last.op = "notify" /\ InterestsMatch(articles[last.article_id], profile))
          => InterestMatchCount(notifications, last.article_id) = 1

\* A repeated call for an article whose topics match the interests: it
\* created nothing, and the one notification is there.
C7_Witness ==
    /\ last.op = "notify"
    /\ last.repeat
    /\ ~last.created
    /\ InterestsMatch(articles[last.article_id], profile)
    /\ InterestMatchCount(notifications, last.article_id) = 1

\* The open batches whose submitted requests hold article i.
OpenBatchesOf(i) ==
    {j \in DOMAIN pending_batches :
        /\ pending_batches[j].status \in OpenStatuses
        /\ i \in provider[pending_batches[j].batch_id]}

\* C2: at most one open batch per article. In every reachable state each
\* article is among the submitted requests of at most one batch whose status
\* is pending or processing.
C2_AtMostOneOpenBatch ==
    \A i \in DOMAIN articles : Cardinality(OpenBatchesOf(i)) <= 1

StatusRank(status) ==
    CASE status = "pending" -> 0
      [] status = "processing" -> 1
      [] OTHER -> 2

Forward(old, new) ==
    /\ old \in TerminalStatuses => new = old
    /\ StatusRank(old) <= StatusRank(new)

\* C3: monotonic status. No step removes a batch row or changes the status of
\* a completed or failed batch, and no step moves a batch backwards along
\* pending -> processing -> {completed, failed}; this holds of the stored rows
\* and of the rows of a running check's session.
C3_MonotonicStatus ==
    [][ /\ DOMAIN pending_batches \subseteq DOMAIN pending_batches'
        /\ \A j \in DOMAIN pending_batches :
              Forward(pending_batches[j].status, pending_batches'[j].status)
        /\ (tick.pc = "loop" /\ tick'.pc = "loop") =>
              \A j \in DOMAIN tick.sess :
                  Forward(tick.sess[j].status, tick'.sess[j].status)
        /\ (tick.pc = "idle" /\ tick'.pc = "loop") =>
              \A j \in DOMAIN tick'.sess :
                  pending_batches[j].status \notin TerminalStatuses
      ]_vars

\* A check that ran while batch 1 was already completed: it handled one
\* batch only, batch 2, and left batch 1 completed.
C3_Witness ==
    /\ last.op = "tick"
    /\ last.results.checked = 1
    /\ Len(pending_batches) = 2
    /\ pending_batches[1].status = "completed"
    /\ pending_batches[2].status = "processing"

\* C8: failure isolation in the batch check. A run loads every open batch;
\* each pass of the loop handles one batch and leaves all the others of the
\* run still to be handled, whatever get_batch_status did; a batch whose poll
\* raised keeps its status, a batch reported "ended" becomes completed; and at
\* the end every loaded batch has been polled, the rows are stored as the
\* loop left them, and a batch whose poll raised is still open, so that the
\* next run loads it again.
C8_FailureIsolation ==
    [][ /\ (tick.pc = "idle" /\ tick'.pc = "loop") =>
              /\ DOMAIN tick'.sess = LoadOpenBatches(pending_batches)
              /\ {tick'.todo[k] : k \in DOMAIN tick'.todo} = DOMAIN tick'.sess
        /\ (tick.pc = "loop" /\ tick'.pc = "loop") =>
              LET j == Head(tick.todo)
              IN  /\ tick'.todo = Tail(tick.todo)
                  /\ DOMAIN tick'.seen = DOMAIN tick.seen \cup {j}
                  /\ tick'.seen[j] = "raise" =>
                        tick'.sess[j].status = tick.sess[j].status
                  /\ tick'.seen[j] = "ended" => tick'.sess[j].status = "completed"
                  /\ \A k \in DOMAIN tick.sess \ {j} : tick'.sess[k] = tick.sess[k]
        /\ (tick.pc = "loop" /\ tick'.pc = "idle") =>
              /\ DOMAIN tick.seen = DOMAIN tick.sess
              /\ \A j \in DOMAIN tick.sess :
                    /\ pending_batches'[j] = tick.sess[j]
                    /\ tick.seen[j] = "raise" =>
                          /\ pending_batches'[j].status = pending_batches[j].status
                          /\ j \in LoadOpenBatches(pending_batches')
                    /\ tick.seen[j] = "ended" =>
                          pending_batches'[j].status = "completed"
      ]_vars

\* A check of two pending batches in which the poll of batch 1 raised and
\* batch 2 was reported ended: batch 2 is completed, batch 1 is still pending.
C8_Witness ==
    /\ last.op = "tick"
    /\ last.results.checked = 2
    /\ last.results.failed = 1
    /\ last.results.completed = 1
    /\ Len(pending_batches) = 2
    /\ pending_batches[1].status = "pending"
    /\ pending_batches[1].error_message = Some(<<"error">>)
    /\ pending_batches[2].status = "completed"

\* C9: the age policy. When a run of the batch check ends, every batch it
\* loaded that is older than MaxAge and that the provider did not report as
\* terminal is stored as failed with error message "exceeded_max_age".
C9_AgePolicy ==
    [][ (tick.pc = "loop" /\ tick'.pc = "idle") =>
            \A j \in DOMAIN tick.sess :
                (/\ now - pending_batches[j].created_date > MaxAge
                 /\ tick.seen[j] \in {"in_progress", "raise"})
                => /\ pending_batches'[j].status = "failed"
                   /\ pending_batches'[j].error_message = Some(<<"exceeded_max_age">>)
      ]_vars

\* C10: bounded polling. With the batch check firing again and again, every
\* batch in the ledger eventually has status completed or failed.
C10_EventuallyTerminal ==
    \A j \in 1..MaxBatches :
        (j \in DOMAIN pending_batches)
            ~> (j \in DOMAIN pending_batches
                /\ pending_batches[j].status \in TerminalStatuses)

\* What one call of apply_batch_results for the batch at the head of the
\* running check can come to: one outcome per result set the provider can
\* hold for the batch, and the outcome of a call whose fetch raised.
ApplyOutcomes ==
    { ApplyBatchResults(TRUE, results, articles, notifications, profile, now) :
        results \in ProviderResults(tick.sess[Head(tick.todo)].batch_id) }
    \cup { ApplyBatchResults(FALSE, <<>>, articles, notifications, profile, now) }

\* C16: the terminal-success transition. A pass of the loop in which
\* get_batch_status reports "ended" has the effect of exactly one
\* apply_batch_results call on the articles and notifications, adds that
\* call's updated count to articles_updated, counts the batch as completed,
\* and leaves the row completed with completed_date set to the current time.
C16_TerminalSuccess ==
    [][ (/\ tick.pc = "loop" /\ tick'.pc = "loop"
         /\ tick'.seen[Head(tick.todo)] = "ended")
        => LET j == Head(tick.todo)
           IN  /\ tick'.sess[j].status = "completed"
               /\ tick'.sess[j].completed_date = Some(now)
               /\ tick'.counts.completed = tick.counts.completed + 1
               /\ \E r \in ApplyOutcomes :
                     /\ articles' = r.articles
                     /\ notifications' = r.notifications
                     /\ tick'.counts.articles_updated =
                           tick.counts.articles_updated + r.updated_count
      ]_vars

\* A check that found two batches ended and applied both: both rows are
\* completed and articles_updated adds up the two calls' counts.
C16_Witness ==
    /\ last.op = "tick"
    /\ last.results.completed = 2
    /\ last.results.articles_updated = 2
    /\ \A j \in {1, 2} : /\ pending_batches[j].status = "completed"
                         /\ pending_batches[j].completed_date # Null
    /\ articles[1].processed

\* C17: the terminal-failure transition. A pass of the loop in which
\* get_batch_status reports failed, expired or canceled leaves the row failed
\* with the error message naming that state and completed_date set, counts
\* the batch as failed, and changes no article, no notification and not
\* articles_updated (apply_batch_results is not called).
C17_TerminalFailure ==
    [][ (/\ tick.pc = "loop" /\ tick'.pc = "loop"
         /\ tick'.seen[Head(tick.todo)] \in {"failed", "expired", "canceled"})
        => LET j == Head(tick.todo)
           IN  /\ tick'.sess[j].status = "failed"
               /\ tick'.sess[j].error_message = Some(<<"Batch", tick'.seen[j]>>)
               /\ tick'.sess[j].completed_date = Some(now)
               /\ tick'.counts.failed = tick.counts.failed + 1
               /\ tick'.counts.articles_updated = tick.counts.articles_updated
               /\ articles' = articles
               /\ notifications' = notifications
      ]_vars

\* A check that found a batch canceled: the row is stored failed with
\* "Batch canceled", and the article of the batch is still unprocessed.
C17_Witness ==
    /\ last.op = "tick"
    /\ last.results.failed = 1
    /\ pending_batches[1].status = "failed"
    /\ pending_batches[1].error_message = Some(<<"Batch", "canceled">>)
    /\ ~articles[1].processed

\* C18: the in-progress transition. A pass of the loop in which
\* get_batch_status reports a state that is neither "ended" nor failed,
\* expired or canceled leaves the row processing, whether it was pending or
\* processing, with completed_date unset, counts the batch as still pending,
\* and changes no article, no notification and not articles_updated.
C18_InProgress ==
    [][ (/\ tick.pc = "loop" /\ tick'.pc = "loop"
         /\ tick'.seen[Head(tick.todo)] \in {"in_progress", "canceling"})
        => LET j == Head(tick.todo)
           IN  /\ tick'.sess[j].status = "processing"
               /\ tick'.sess[j].completed_date = Null
               /\ tick'.counts.still_pending = tick.counts.still_pending + 1
               /\ tick'.counts.articles_updated = tick.counts.articles_updated
               /\ articles' = articles
               /\ notifications' = notifications
      ]_vars

\* A second check of a batch that an earlier check had already moved to
\* processing: the provider is still not done and the row stays processing.
C18_Witness ==
    /\ tick.pc = "loop"
    /\ 1 \in DOMAIN tick.seen
    /\ tick.seen[1] \in {"in_progress", "canceling"}
    /\ pending_batches[1].status = "processing"
    /\ tick.sess[1].status = "processing"
    /\ tick.sess[1].completed_date = Null

\* Call k of fetch_and_process_job is at position pc and takes the step.
DailySteps(k, pc) ==
    /\ k \in DOMAIN running
    /\ running[k].job = "daily"
    /\ running[k].pc = pc
    /\ \/ Len(running') < Len(running)
       \/ /\ Len(running') = Len(running)
          /\ running'[k] # running[k]

\* The run returned batch_id = None and batch_articles = 0.
ReturnsNoBatch(l) == l.op = "daily" /\ l.batch_id = Null /\ l.batch_articles = 0

\* C13: a failed submission leaves no trace. When the create step of the
\* daily job finds articles to submit and the provider takes no batch, the run
\* ends there reporting batch_id None and batch_articles 0, no pending_batches
\* row is added, no article is changed, and the selection a next run makes is
\* the one this run made.
C13_CreateFailureNoTrace ==
    [][ \A k \in 1..MaxRunning :
          (/\ DailySteps(k, "create")
           /\ SelectForBatch(articles, BatchLimit) # {}
           /\ provider' = provider)
          => /\ running' = Remove(running, k)
             /\ ReturnsNoBatch(last')
             /\ pending_batches' = pending_batches
             /\ articles' = articles
             /\ SelectForBatch(articles', BatchLimit) = SelectForBatch(articles, BatchLimit)
      ]_vars

\* A run whose submission failed has returned: nothing at the provider, no
\* row, and the article still unprocessed.
C13_Witness ==
    /\ ReturnsNoBatch(last)
    /\ last.error = "submit"
    /\ provider = <<>>
    /\ pending_batches = <<>>
    /\ running = <<>>
    /\ UnprocessedIds(articles) # {}

\* C14: no empty job. A run that counts no unprocessed article, and a run
\* whose create step selects none (the last one was processed after the
\* count), submits nothing, adds no pending_batches row and reports batch_id
\* None and batch_articles 0; no batch at the provider is ever empty.
C14_NoEmptyJob ==
    [][ /\ \A k \in 1..MaxRunning :
              (\/ DailySteps(k, "count") /\ UnprocessedIds(articles) = {}
               \/ DailySteps(k, "create") /\ SelectForBatch(articles, BatchLimit) = {})
              => /\ running' = Remove(running, k)
                 /\ ReturnsNoBatch(last')
                 /\ provider' = provider
                 /\ pending_batches' = pending_batches
        /\ \A b \in DOMAIN provider' : provider'[b] # {}
      ]_vars

\* A run counted an unprocessed article, synchronous processing took it, and
\* create_async_batch raised ValueError: nothing was submitted.
C14_Witness ==
    /\ ReturnsNoBatch(last)
    /\ last.error = "ValueError"
    /\ last.unprocessed_count > 0
    /\ provider = <<>>
    /\ pending_batches = <<>>

\* C15: the job record matches the submission. Every pending_batches row the
\* daily job stored is pending, carries a batch id the provider issued, and
\* has article_count equal to the number of requests submitted under that id.
C15_RecordMatchesSubmission ==
    \A j \in DOMAIN pending_batches :
        /\ pending_batches[j].status = "pending"
        /\ pending_batches[j].batch_id \in DOMAIN provider
        /\ pending_batches[j].article_count =
              Cardinality(provider[pending_batches[j].batch_id])

\* What one apply_batch_results call alone makes of the store the calls found.
SingleApply ==
    ApplyBatchResults(TRUE, batch_results, last.before, <<>>, profile, now).articles

\* C20: concurrent Apply is safe. However the steps of overlapping
\* apply_batch_results calls for the same results interleave, once a call has
\* committed every article has the processed flag and the topics that a
\* single call gives it, and until then the store is as the calls found it.
C20_ConcurrentApplySafe ==
    last.op = "race" =>
        IF last.committed = 0
        THEN articles = last.before
        ELSE /\ DOMAIN articles = DOMAIN SingleApply
             /\ \A i \in DOMAIN articles :
                   /\ articles[i].processed = SingleApply[i].processed
                   /\ articles[i].topics = SingleApply[i].topics

\* Two calls overlapped, both committed, and an article that was processed
\* before carries the topics of the results.
C20_Witness ==
    /\ last.op = "race"
    /\ last.overlapped
    /\ last.committed = 2
    /\ running = <<>>
    /\ \E i \in DOMAIN articles :
          /\ last.before[i].processed
          /\ i \in DOMAIN batch_results
          /\ batch_results[i] # <<>>
          /\ articles[i].topics = JsonDumps(batch_results[i])
          /\ articles[i].topics # last.before[i].topics

\* C11: per-trigger non-overlap. At no time are two scheduler-started calls of
\* the same job in progress, and no batch row is held for polling by two
\* calls of check_pending_batches_job at once.
Started(job, origin) ==
    {k \in DOMAIN running : running[k].job = job /\ running[k].origin = origin}

C11_PerTriggerNonOverlap ==
    /\ \A job \in ScheduledJobs : Cardinality(Started(job, "scheduled")) <= 1
    /\ \A k \in Started("check", "scheduled"), m \in Started("check", "scheduled") :
          k # m => DOMAIN running[k].sess \cap DOMAIN running[m].sess = {}

\* A scheduled poll is in progress, with an open batch still to poll.
C11_Witness ==
    \E k \in Started("check", "scheduled") :
        /\ running[k].todo # <<>>
        /\ pending_batches[Head(running[k].todo)].status \in OpenStatuses

\* C12: manual/scheduled exclusion. A call of fetch_and_process_job made by
\* the run-daily-job endpoint is never in progress together with another call
\* of it, scheduled or manual.
C12_ManualScheduledExclusion ==
    \A k \in Started("daily", "manual") :
        Started("daily", "manual") \cup Started("daily", "scheduled") = {k}

\* A manual run is in progress, about to submit the articles it counted.
C12_Witness ==
    \E k \in Started("daily", "manual") :
        /\ running[k].pc = "create"
        /\ running[k].unprocessed_count > 0

\* C19: trigger independence. Right after a run of either job has failed (the
\* job raised, or it returned an error), both jobs are registered and a
\* firing of either can start.
FailedRun(l) ==
    \/ l.op = "raised"
    \/ l.op = "daily" /\ l.error # "none"

TopicsOf(article) == IF article.topics = Null THEN <<>> ELSE JsonLoads(article.topics)

ShouldNotify(article_id) ==
    /\ profile.exists
    /\ \E k \in DOMAIN profile.interests : Strip(profile.interests[k]) # ""
    /\ \E k \in DOMAIN profile.interests, m \in DOMAIN TopicsOf(articles[article_id]) :
          /\ Strip(profile.interests[k]) # ""
          /\ Lower(Strip(profile.interests[k])) = Lower(TopicsOf(articles[article_id])[m])
    /\ ~\E n \in DOMAIN notifications :
          /\ notifications[n].article_id = article_id
          /\ notifications[n].type = "interest_match"

C24_NotifyDecisionRule ==
    [][ (last'.op = "notify" /\ last' # last) =>
            /\ last'.created <=> ShouldNotify(last'.article_id)
            /\ ShouldNotify(last'.article_id) =>
                  notifications' = Append(notifications,
                                          [article_id |-> last'.article_id,
                                           type |-> "interest_match"])
            /\ ~ShouldNotify(last'.article_id) => notifications' = notifications
      ]_vars

\* A call created the notification for an article whose topic equals a
\* keyword only up to case and blanks.
C24_Witness ==
    /\ last.op = "notify"
    /\ last.created
    /\ ~last.repeat
    /\ profile = NlpProfile
    /\ TopicsOf(articles[last.article_id]) = <<"Nlp">>
    /\ InterestMatchCount(notifications, last.article_id) = 1

\* C22: malformed-item isolation in get_batch_results. The call does not
\* raise; it returns an outcome for every entry of the batch; an entry whose
\* answer cannot be read gets the failed outcome (no topics), and every other
\* entry the topics its own answer holds.
C22_MalformedIsolation ==
    last.op = "get_batch_results" =>
        /\ ~last.raised
        /\ DOMAIN last.results = DOMAIN last.entries
        /\ \A id \in DOMAIN last.entries :
              last.results[id] = IF Malformed(last.entries[id])
                                 THEN <<>>
                                 ELSE EntryTopics(last.entries[id])

\* C21: no double counting. A pass of the batch check's loop counts its batch
\* in exactly one of completed, failed and still_pending; a pass of the loop
\* of apply_batch_results counts its result in exactly one of updated_count
\* and failed_count; a pass of the loop of process_batch counts its article in
\* exactly one of processed_count and failed_count; and the batch, result or
\* article of a pass is not handled again in the same run.
CallPass(job) ==
    /\ running # <<>>
    /\ running' # <<>>
    /\ running[1].job = job
    /\ running'[1].job = job
    /\ Len(running'[1].todo) = Len(running[1].todo) - 1

TickPass ==
    /\ tick.pc = "loop"
    /\ tick'.pc = "loop"
    /\ Len(tick'.todo) = Len(tick.todo) - 1

NotAgain(todo, rest) == \A m \in DOMAIN rest : rest[m] # Head(todo)

C21_NoDoubleCounting ==
    [][ /\ TickPass =>
              /\ (tick'.counts.completed - tick.counts.completed)
                   + (tick'.counts.failed - tick.counts.failed)
                   + (tick'.counts.still_pending - tick.counts.still_pending) = 1
              /\ tick'.counts.completed >= tick.counts.completed
              /\ tick'.counts.failed >= tick.counts.failed
              /\ tick'.counts.still_pending >= tick.counts.still_pending
              /\ NotAgain(tick.todo, tick'.todo)
        /\ CallPass("apply") =>
              /\ (running'[1].updated_count - running[1].updated_count)
                   + (running'[1].failed_count - running[1].failed_count) = 1
              /\ running'[1].updated_count >= running[1].updated_count
              /\ running'[1].failed_count >= running[1].failed_count
              /\ NotAgain(running[1].todo, running'[1].todo)
        /\ CallPass("process") =>
              /\ (running'[1].processed_count - running[1].processed_count)
                   + (running'[1].failed_count - running[1].failed_count) = 1
              /\ running'[1].processed_count >= running[1].processed_count
              /\ running'[1].failed_count >= running[1].failed_count
              /\ NotAgain(running[1].todo, running'[1].todo)
      ]_vars

\* A process_batch call has handled its article through the fallback, which
\* processed it: counted once, as processed.
C21_Witness ==
    /\ running # <<>>
    /\ running[1].job = "process"
    /\ running[1].todo = <<>>
    /\ running[1].processed_count = 1
    /\ running[1].failed_count = 0
    /\ \E i \in DOMAIN running[1].writes : running[1].writes[i].topics = JsonDumps(<<>>)

\* C23: topics are set once. No step (a batch applied by the batch check, a
\* process_batch call without force) changes the topics of an article that is
\* processed, or makes it unprocessed again.
C23_TopicsSetOnce ==
    [][ \A i \in DOMAIN articles :
            articles[i].processed =>
                /\ articles'[i].processed
                /\ articles'[i].topics = articles[i].topics
      ]_vars

\* C25: failed outcomes are retried. An article that is not processed and
\* whose result in the batch applied holds no topics is still not processed
\* after the Apply; and a create_async_batch(limit) that submits a batch puts
\* into it every unprocessed article that is among the first `limit`
\* unprocessed ones (every one when there is no limit).
AmongFirst(i, limit) ==
    limit = 0 \/ Cardinality({j \in UnprocessedIds(articles) : j <= i}) <= limit

C25_FailedRetried ==
    [][ /\ (last'.op = "apply" /\ last' # last) =>
              \A id \in WithoutTopics :
                  ~articles[id].processed => ~articles'[id].processed
        /\ (last'.op = "create" /\ Len(provider') = Len(provider) + 1) =>
              \A i \in UnprocessedIds(articles) :
                  AmongFirst(i, last'.limit) => i \in provider'[Len(provider')]
      ]_vars

\* The batch submitted right after an Apply holds an article whose result in
\* the batch applied was empty and which is still unprocessed.
C25_Witness ==
    /\ last.op = "create"
    /\ last.after_apply
    /\ ~last.raised
    /\ \E id \in WithoutTopics :
          /\ ~articles[id].processed
          /\ id \in provider[last.batch_id]

\* C26: article_count is immutable. No step (a pass or the commit of the
\* batch check, the Apply inside it, a later daily run, synchronous
\* processing) removes a pending_batches row or changes its article_count or
\* its batch_id, and the rows a run of the batch check holds in its session
\* carry the article_count and batch_id of the stored rows.
C26_ItemCountImmutable ==
    [][ /\ \A j \in DOMAIN pending_batches :
              /\ j \in DOMAIN pending_batches'
              /\ pending_batches'[j].article_count = pending_batches[j].article_count
              /\ pending_batches'[j].batch_id = pending_batches[j].batch_id
        /\ tick'.pc = "loop" =>
              \A j \in DOMAIN tick'.sess :
                  /\ tick'.sess[j].article_count = pending_batches[j].article_count
                  /\ tick'.sess[j].batch_id = pending_batches[j].batch_id
      ]_vars

\* A batch the check completed, with the count it was created with, and a
\* batch a later daily run stored after it.
C26_Witness ==
    \E j \in DOMAIN pending_batches :
        /\ pending_batches[j].status = "completed"
        /\ pending_batches[j].article_count = MaxFetched
        /\ j < Len(pending_batches)
        /\ pending_batches[j + 1].created_date >= pending_batches[j].created_date
        /\ last.op = "daily"

\* C27: batch_id is unique. pending_batches never holds two rows with the same
\* batch_id; adding a row whose batch_id is stored raises and leaves every
\* row as it was; adding a row whose batch_id is new appends it.
Stored(pb, batch_id) == \E j \in DOMAIN pb : pb[j].batch_id = batch_id

C27_UniqueBatchId ==
    [][ /\ \A j \in DOMAIN pending_batches', m \in DOMAIN pending_batches' :
              pending_batches'[j].batch_id = pending_batches'[m].batch_id => j = m
        /\ (last'.op = "add_batch" /\ last' # last) =>
              IF Stored(pending_batches, last'.batch_id)
              THEN last'.raised /\ pending_batches' = pending_batches
              ELSE /\ ~last'.raised
                   /\ Len(pending_batches') = Len(pending_batches) + 1
                   /\ pending_batches'[Len(pending_batches')].batch_id = last'.batch_id
      ]_vars

\* Adding a row with a stored batch_id and another article_count raised; the
\* stored row has the count and the status it had.
C27_Witness ==
    /\ last.op = "add_batch"
    /\ last.raised
    /\ \E j \in DOMAIN pending_batches :
          /\ pending_batches[j].batch_id = last.batch_id
          /\ pending_batches[j].article_count # last.article_count
          /\ pending_batches[j].status = "pending"

\* C28: per-row persistence in the batch check. When a run is cut short
\* after it has handled some batches and before it has handled the rest,
\* every batch it handled is stored as the run left it: with the status, the
\* completed_date and the error_message the pass assigned.
C28_PerRowPersistence ==
    last.op = "interrupted" =>
        \A j \in DOMAIN last.handled : pending_batches[j] = last.handled[j]

\* C29: the triggers do not delay each other. While a call of one job is in
\* progress (however long it takes), a firing of the other job can start, so
\* that calls of the two jobs are in progress at the same time.
C29_TriggersDoNotDelay ==
    /\ Started("daily", "scheduled") \cup Started("daily", "manual") # {} =>
          CanStart("check", "scheduled", running)
    /\ Started("check", "scheduled") # {} =>
          CanStart("daily", "scheduled", running)

\* The fetch steps of the run that raised, in a run that got its interests.
FailedSources(l) == IF l.op = "ingest" /\ "rss" \in l.ran THEN l.failed ELSE {}

\* The run went through every step it has: RSS and the batch step, and with
\* interests the arXiv and Semantic Scholar steps, and returned its results.
RanToTheEnd(l) ==
    /\ ~l.raised
    /\ {"rss", "batch"} \subseteq l.ran
    /\ l.interests > 0 => {"arxiv", "semanticscholar"} \subseteq l.ran

\* C30 Ingestion failures do not halt the daily job: when any of the RSS
\* refresh, the arXiv fetch and the Semantic Scholar fetch raises,
\* fetch_and_process_job still runs the other fetch steps and the batch step,
\* does not raise, and returns results in which every source that failed
\* counts 0 new articles.
C30_IngestFailuresIsolated ==
    FailedSources(last) # {} =>
        /\ RanToTheEnd(last)
        /\ \A s \in FailedSources(last) : last[s] = 0

\* C30, amended: as above, but a source that failed counts what it had counted
\* before it raised: 0 for RSS and Semantic Scholar, and for arXiv the
\* articles stored for the interests fetched before the one that raised.
C30_IngestFailuresCountPartial ==
    FailedSources(last) # {} =>
        /\ RanToTheEnd(last)
        /\ \A s \in FailedSources(last) :
              last[s] = IF s = "arxiv" THEN last.stored.arxiv ELSE 0

\* All three fetch steps raised, arXiv after it stored an article for its
\* first interest, and the run still created its batch.
C30_Witness ==
    /\ FailedSources(last) = {"rss", "arxiv", "semanticscholar"}
    /\ last.arxiv = 1
    /\ last.batch_id # Null

LastPoll(l) == l.seen[Len(l.seen)]

EarlierPollsSlept(l) ==
    \A k \in 1..(Len(l.seen) - 1) :
        /\ l.seen[k].status \notin {"ended", "raise"}
        /\ l.seen[k].elapsed <= l.max_wait

\* What holds of every call of poll_batch_until_complete that is over, its
\* way out being one of `exits`.
WaitEndsBy(l, exits) ==
    /\ Len(l.seen) >= 1
    /\ EarlierPollsSlept(l)
    /\ l.exit \in exits
    /\ l.fetched <=> LastPoll(l).status = "ended"
    /\ l.exit = "results" => l.fetched
    /\ l.exit = "TimeoutError" =>
          /\ LastPoll(l).status \notin {"ended", "raise"}
          /\ LastPoll(l).elapsed > l.max_wait
    /\ l.exit = "raised" => LastPoll(l).status = "raise" \/ l.fetched

\* C32 poll_batch_until_complete terminates: with time advancing the loop
\* always ends, by returning the results at the first poll that observes
\* "ended" or by raising TimeoutError at the first poll after more than
\* max_wait seconds; it polls at least once and fetches no results of a batch
\* it did not observe as ended.
C32_PollTerminates ==
    /\ [](last.op = "wait" => WaitEndsBy(last, {"results", "TimeoutError"}))
    /\ (running # <<>>) ~> (running = <<>>)

\* C32, amended: the loop always ends, in one of three ways: the first poll
\* that observes "ended" fetches the results and returns them (or raises what
\* get_batch_results raises); the first poll after more than max_wait seconds
\* that does not observe "ended" raises TimeoutError; a status call that
\* raises ends the loop with its exception.
C32_PollTerminatesOrRaises ==
    /\ [](last.op = "wait" => WaitEndsBy(last, {"results", "TimeoutError", "raised"}))
    /\ (running # <<>>) ~> (running = <<>>)

\* A call that slept, polled again and timed out.
C32_Witness ==
    /\ last.op = "wait"
    /\ last.exit = "TimeoutError"
    /\ Len(last.seen) >= 2
    /\ running = <<>>

\* The step is a call of process_article on article i.
ProcessArticleOn(i) ==
    /\ last'.op = "process_article"
    /\ last'.article_id = i
    /\ i \in DOMAIN articles

\* C33 Synchronous skip guard: process_article on an article with processed
\* true and force false makes no inference call, returns False and leaves
\* the article's topics, processed flag and processing_date as they were.
C33_SkipGuard ==
    [][ \A i \in 1..MaxItems :
          (ProcessArticleOn(i) /\ articles[i].processed /\ ~last'.force) =>
              /\ last'.calls = 0
              /\ last'.result = FALSE
              /\ articles'[i].topics = articles[i].topics
              /\ articles'[i].processed = articles[i].processed
              /\ articles'[i].processing_date = articles[i].processing_date
      ]_vars

\* A processed article was passed without force; it still holds the date
\* of its processing.
C33_Witness ==
    /\ last.op = "process_article"
    /\ ~last.force
    /\ last.calls = 0
    /\ articles[last.article_id].processed
    /\ articles[last.article_id].processing_date = Some(0)

\* C34 A synchronous processing error leaves the article untouched: when the
\* inference call process_article makes raises, process_article returns
\* False, the article keeps its processed flag (false for an article not
\* processed before), its topics and its processing_date, and nothing is
\* raised to the caller.
C34_ErrorLeavesUntouched ==
    [][ \A i \in 1..MaxItems :
          (ProcessArticleOn(i) /\ last'.llm_raised) =>
              /\ last'.result = FALSE
              /\ ~last'.raised
              /\ articles'[i] = articles[i]
              /\ ~articles[i].processed => ~articles'[i].processed
      ]_vars

\* The inference call raised for an article that was not processed.
C34_Witness ==
    /\ last.op = "process_article"
    /\ last.llm_raised
    /\ last.calls = 1
    /\ ~articles[last.article_id].processed

\* The step is the end of an apply_batch_results call made on its own: the
\* commit (or the rollback) and the return of the counts.
ApplyReturns ==
    /\ running # <<>>
    /\ running[1].job = "apply"
    /\ running[1].todo = <<>>
    /\ running' = <<>>

\* The articles that hold, once the call is over, what the call was to give
\* them: processed, with the topics of their result.
DurablyUpdated ==
    {i \in DOMAIN batch_results \cap DOMAIN articles' :
        /\ batch_results[i] # <<>>
        /\ articles'[i].processed
        /\ articles'[i].topics = JsonDumps(batch_results[i])}

\* C36 Reported counts match persisted state: the updated count
\* apply_batch_results returns is the number of articles that call durably
\* set to processed, also when an exception inside the call (a failing
\* commit, say) makes it roll back.
C36_CountsMatchPersisted ==
    [][ ApplyReturns => running[1].updated_count = Cardinality(DurablyUpdated) ]_vars

\* The pass of the check loop sets batch j (in the run's session) to completed.
SetsCompleted(j) ==
    /\ tick.pc = "loop"
    /\ tick'.pc = "loop"
    /\ j \in DOMAIN tick.sess
    /\ tick.sess[j].status # "completed"
    /\ tick'.sess[j].status = "completed"

\* C35 Completed implies applied: a batch is set to completed only in a run
\* of the check in which apply_batch_results fetched the batch's results and
\* committed the article updates; when the fetch inside it fails the batch
\* is not set to completed and stays open for a later run.
C35_CompletedImpliesApplied ==
    [][ \A j \in 1..MaxBatches :
          SetsCompleted(j) =>
              LET applied == ApplyBatchResults(TRUE, batch_results, articles,
                                               notifications, profile, now)
              IN  /\ articles' = applied.articles
                  /\ notifications' = applied.notifications
      ]_vars

\* The step is the return of a run of the batch check that got as far as
\* its loop.
TickReturns ==
    /\ tick.pc = "loop"
    /\ tick'.pc = "idle"
    /\ last'.op = "tick"

\* The batches the run checked that the ledger holds with `status` once the
\* run is over.
CheckedWith(status) ==
    Cardinality({j \in DOMAIN tick.sess : pending_batches'[j].status = status})

\* C37 The summary of the batch check agrees with the ledger: in the result
\* of every run checked = completed + still_pending + failed, and completed,
\* still_pending and failed are the numbers of checked batches whose stored
\* status after the run is completed, processing and failed.
C37_SummaryAgreesWithLedger ==
    [][ TickReturns =>
          LET c == last'.results
          IN  /\ c.checked = c.completed + c.still_pending + c.failed
              /\ c.completed = CheckedWith("completed")
              /\ c.still_pending = CheckedWith("processing")
              /\ c.failed = CheckedWith("failed")
      ]_vars

\* C38 completed_date tracks terminality: in every ledger state a batch has
\* a completed_date if and only if its status is completed or failed.
C38_DateTracksTerminality ==
    \A j \in DOMAIN pending_batches :
        pending_batches[j].completed_date # Null
            <=> pending_batches[j].status \in TerminalStatuses

\* The ledger holds a failed batch with its date beside a batch a check left
\* in processing.
C38_Witness ==
    /\ \E j \in DOMAIN pending_batches :
          /\ pending_batches[j].status = "failed"
          /\ pending_batches[j].completed_date # Null
    /\ \E j \in DOMAIN pending_batches :
          /\ pending_batches[j].status = "processing"
          /\ pending_batches[j].completed_date = Null

\* C39 error_message only on failed batches: in every ledger state a batch
\* with an error_message has status failed; a batch that ends as completed
\* carries none, even if an earlier check met an error while polling it.
C39_ErrorOnlyOnFailed ==
    \A j \in DOMAIN pending_batches :
        pending_batches[j].error_message # Null => pending_batches[j].status = "failed"

\* C40 Processed articles are enriched: in every state every article with
\* processed true has a non-empty list of topics and a processing_date,
\* whichever path processed it.
C40_ProcessedEnriched ==
    \A i \in DOMAIN articles :
        articles[i].processed =>
            /\ TopicsOf(articles[i]) # <<>>
            /\ articles[i].processing_date # Null

====
